---- MODULE Spec2Model ----
(***************************************************************************)
(* A model of the wasm-db query engine: the EmbeddingCache (cache.rs), the *)
(* UiDatabase and its indices (db.rs), the tokenizer and text scorer       *)
(* (tokenizer.rs), the QueryExecutor (query.rs) and the WasmUiDb host      *)
(* interface (lib.rs).                                                     *)
(*                                                                         *)
(* Conventions.  Option<T> is a sequence: <<>> is None, <<v>> is Some(v).  *)
(* A Rust String is a string where the code passes it on and the sequence  *)
(* of its characters (Chars) where the code looks into it.  Record         *)
(* positions are 0-based as in the code; records[p + 1] is the record at   *)
(* position p.                                                             *)
(***************************************************************************)
EXTENDS Integers, Sequences, FiniteSets, TLC

VARIABLES
    records,       \* UiDatabase.records
    role_index,    \* UiDatabase.role_index: role -> positions
    token_index,   \* UiDatabase.token_index: token -> positions
    testid_index,  \* UiDatabase.testid_index: data-testid -> position
    synonyms,      \* UiDatabase.synonyms: word -> the other words of its group
    entries,       \* EmbeddingCache.entries: fingerprint -> CacheEntry
    access_order,  \* EmbeddingCache.access_order: front = oldest
    capacity,      \* EmbeddingCache.capacity
    hash_order,    \* the order in which this build's FxHashSet<usize> yields positions
    ret,           \* the last call made and what it returned
    clock,         \* history: number of cache get/put calls made so far
    last_use,      \* history: clock of each key's most recent get-or-put
    put_run,       \* history: keys put so far, while put is the only call made
    get_key,       \* history: <<k>> after a get hit on k followed only by puts of absent keys
    puts_after_get,\* history: number of those puts
    shadow,        \* history: the cache the same calls build when the read-only calls are left out
    seen_query,    \* history: <<a query answered since the last ingest or reset>>
    since_reset    \* history: from a reset until the next ingest, <<what the reset emptied>>

db_vars == <<records, role_index, token_index, testid_index, synonyms>>
cache_vars == <<entries, access_order, capacity>>
hist_vars == <<clock, last_use, put_run, get_key, puts_after_get, shadow>>
vars == <<records, role_index, token_index, testid_index, synonyms,
          entries, access_order, capacity, hash_order, ret,
          clock, last_use, put_run, get_key, puts_after_get, shadow, seen_query,
          since_reset>>

----------------------------------------------------------------------------
(* Bounds of the model *)

MaxCap == 2      \* capacities 1..MaxCap are explored
MaxClock == 4    \* at most MaxClock get/put calls in a run
MaxRecords == 2  \* a corpus holds at most MaxRecords records
MaxHostPuts == 2 \* at most MaxHostPuts cache_embedding calls in a run

Keys == {"a", "b", "c", "d"}
Embeddings == {<<1, 0>>, <<0, 1>>}

None == <<>>
Some(v) == <<v>>

----------------------------------------------------------------------------
(* Sequence helpers *)

Range(s) == {s[i] : i \in 1..Len(s)}

Contains(s, x) == \E i \in 1..Len(s) : s[i] = x

Distinct(s) == \A i, j \in 1..Len(s) : i # j => s[i] # s[j]

\* VecDeque::retain(|k| k != fp)
Retain(s, fp) == SelectSeq(s, LAMBDA k : k # fp)

\* HashMap::remove
MapRemove(m, k) == [x \in (DOMAIN m) \ {k} |-> m[x]]

\* HashMap::insert
MapInsert(m, k, v) == [x \in (DOMAIN m) \cup {k} |-> IF x = k THEN v ELSE m[x]]

EmptyMap == [x \in {} |-> 0]

----------------------------------------------------------------------------
(* Strings.  Chars turns a string literal into the sequence of its         *)
(* characters.                                                             *)

Chars(s) == [i \in 1..Len(s) |-> SubSeq(s, i, i)]

Min(a, b) == IF a <= b THEN a ELSE b
Max(a, b) == IF a >= b THEN a ELSE b

UpperCase == Chars("ABCDEFGHIJKLMNOPQRSTUVWXYZÄÖÜ")
LowerCase == Chars("abcdefghijklmnopqrstuvwxyzäöü")

\* char::to_lowercase, on the characters the model's strings are made of
LowerChar(c) ==
    IF \E i \in 1..Len(UpperCase) : UpperCase[i] = c
    THEN LowerCase[CHOOSE i \in 1..Len(UpperCase) : UpperCase[i] = c]
    ELSE c

\* str::to_lowercase
ToLowercase(s) == [i \in 1..Len(s) |-> LowerChar(s[i])]

IsWhitespace(c) == c = " "

\* The characters between which unicode_words breaks and which belong to no
\* word.  The model's strings hold letters, digits and these.
IsWordChar(c) == c \notin {" ", "-", "!", "|", "="}

\* The UTF-8 length of a character: str::len counts bytes.
ByteLen(c) == IF c \in {"ä", "ö", "ü", "ß", "Ä", "Ö", "Ü"} THEN 2 ELSE 1

RECURSIVE StrByteLen(_)
StrByteLen(s) == IF s = <<>> THEN 0 ELSE ByteLen(Head(s)) + StrByteLen(Tail(s))

\* str::trim
RECURSIVE TrimStart(_)
TrimStart(s) == IF s # <<>> /\ IsWhitespace(Head(s)) THEN TrimStart(Tail(s)) ELSE s

RECURSIVE TrimEnd(_)
TrimEnd(s) ==
    IF s # <<>> /\ IsWhitespace(s[Len(s)]) THEN TrimEnd(SubSeq(s, 1, Len(s) - 1)) ELSE s

Trim(s) == TrimEnd(TrimStart(s))

\* str::contains
StrContains(t, q) ==
    \E i \in 0..(Len(t) - Len(q)) : SubSeq(t, i + 1, i + Len(q)) = q

\* str::split(sep): the pieces between the separators, empty ones included
RECURSIVE SplitOn(_, _, _)
SplitOn(s, sep, cur) ==
    IF s = <<>> THEN <<cur>>
    ELSE IF Head(s) = sep THEN <<cur>> \o SplitOn(Tail(s), sep, <<>>)
    ELSE SplitOn(Tail(s), sep, Append(cur, Head(s)))

\* [String]::join(sep)
RECURSIVE Join(_, _)
Join(ss, sep) ==
    IF ss = <<>> THEN <<>>
    ELSE IF Len(ss) = 1 THEN ss[1]
    ELSE ss[1] \o sep \o Join(Tail(ss), sep)

\* Concatenation of a sequence of sequences
RECURSIVE Flatten(_)
Flatten(ss) == IF ss = <<>> THEN <<>> ELSE Head(ss) \o Flatten(Tail(ss))

----------------------------------------------------------------------------
(* Tokenizer and text scorer (tokenizer.rs) *)

\* str::unicode_words: the maximal runs of word characters, in order
RECURSIVE UnicodeWords(_, _)
UnicodeWords(s, cur) ==
    IF s = <<>> THEN (IF cur = <<>> THEN <<>> ELSE <<cur>>)
    ELSE IF IsWordChar(Head(s)) THEN UnicodeWords(Tail(s), Append(cur, Head(s)))
    ELSE (IF cur = <<>> THEN <<>> ELSE <<cur>>) \o UnicodeWords(Tail(s), <<>>)

\* A tokenizer that keeps the one-byte words.
TokenizeKeepShort(text) ==
    LET words == UnicodeWords(text, <<>>)
    IN [i \in 1..Len(words) |-> ToLowercase(words[i])]

\* tokenize
Tokenize(text) ==
    LET words == SelectSeq(UnicodeWords(text, <<>>), LAMBDA w : StrByteLen(w) > 1)
    IN [i \in 1..Len(words) |-> ToLowercase(words[i])]

\* normalize
Normalize(text) == ToLowercase(Trim(text))

\* The inner loop of levenshtein for row i: row holds matrix[i][0..j-1] and
\* prev is matrix[i-1];
\* matrix[i][j] = min(matrix[i-1][j] + 1, matrix[i][j-1] + 1, matrix[i-1][j-1] + cost)
RECURSIVE LevRow(_, _, _, _)
LevRow(prev, a_char, b_chars, row) ==
    IF Len(row) > Len(b_chars) THEN row
    ELSE LET j == Len(row)
             cost == IF a_char = b_chars[j] THEN 0 ELSE 1
         IN LevRow(prev, a_char, b_chars,
                   Append(row, Min(Min(prev[j + 1] + 1, row[j] + 1), prev[j] + cost)))

\* The outer loop of levenshtein: matrix holds the rows 0..i-1, each row
\* starting with matrix[i][0] = i
RECURSIVE LevRows(_, _, _)
LevRows(a_chars, b_chars, matrix) ==
    IF Len(matrix) > Len(a_chars) THEN matrix
    ELSE LET i == Len(matrix)
         IN LevRows(a_chars, b_chars,
                    Append(matrix, LevRow(matrix[i], a_chars[i], b_chars, <<i>>)))

\* levenshtein
Levenshtein(a, b) ==
    IF Len(a) = 0 THEN Len(b)
    ELSE IF Len(b) = 0 THEN Len(a)
    ELSE LevRows(a, b, <<[j \in 1..(Len(b) + 1) |-> j - 1]>>)[Len(a) + 1][Len(b) + 1]

----------------------------------------------------------------------------
(* Scores are f64 in the code and exact fractions <<n, d>>, d > 0, in lowest *)
(* terms here.                                                             *)

RECURSIVE Gcd(_, _)
Gcd(a, b) == IF b = 0 THEN a ELSE Gcd(b, a % b)

Abs(n) == IF n < 0 THEN -n ELSE n

Frac(n, d) == LET g == Gcd(Abs(n), d) IN IF g = 0 THEN <<0, 1>> ELSE <<n \div g, d \div g>>

FracAdd(a, b) == Frac(a[1] * b[2] + b[1] * a[2], a[2] * b[2])
FracMul(a, b) == Frac(a[1] * b[1], a[2] * b[2])
FracLess(a, b) == a[1] * b[2] < b[1] * a[2]
FracMax(a, b) == IF FracLess(a, b) THEN b ELSE a
FracMin(a, b) == IF FracLess(b, a) THEN b ELSE a

\* fuzzy_score, the Levenshtein-based similarity: 1 - distance / max_len,
\* max_len the larger byte length
LevScore(distance, max_len) ==
    IF max_len > 0 THEN Frac(max_len - distance, max_len) ELSE Frac(0, 1)

\* fuzzy_score, the share of the query tokens that contain or are contained
\* in some target token
TokenScore(q_tokens, t_tokens) ==
    Frac(Cardinality({i \in 1..Len(q_tokens) :
                         \E j \in 1..Len(t_tokens) :
                             \/ StrContains(t_tokens[j], q_tokens[i])
                             \/ StrContains(q_tokens[i], t_tokens[j])}),
         Len(q_tokens))

\* fuzzy_score from the token overlap on: q and t are normalized, t_truncated
\* is t cut to q.len() + 10 characters
FuzzyTokens(q, t_truncated, q_tokens, t_tokens) ==
    IF q_tokens = <<>> THEN Frac(0, 1)
    ELSE FracMax(FracMul(TokenScore(q_tokens, t_tokens), Frac(7, 10)),
                 FracMul(LevScore(Levenshtein(q, t_truncated),
                                  Max(StrByteLen(q), StrByteLen(t_truncated))),
                         Frac(5, 10)))

\* fuzzy_score on the normalized query and target
FuzzyNormalized(q, t) ==
    IF t = q THEN Frac(1, 1)
    ELSE IF StrContains(t, q) THEN Frac(9, 10)
    ELSE FuzzyTokens(q, SubSeq(t, 1, Min(Len(t), StrByteLen(q) + 10)),
                     Tokenize(q), Tokenize(t))

\* fuzzy_score
FuzzyScore(query, target) == FuzzyNormalized(Normalize(query), Normalize(target))

\* match_text, one pattern against the text, both normalized
MatchPattern(text_lower, pattern_lower, match_type) ==
    CASE match_type = "exact" -> text_lower = pattern_lower
      [] match_type = "contains" -> StrContains(text_lower, pattern_lower)
      [] match_type = "fuzzy" ->
            FracLess(Frac(5, 10), FuzzyScore(pattern_lower, text_lower))
      [] match_type = "regex" -> StrContains(text_lower, pattern_lower)
      [] OTHER -> StrContains(text_lower, pattern_lower)

\* match_text: true when some pattern matches
MatchText(text, patterns, match_type) ==
    \E i \in 1..Len(patterns) :
        MatchPattern(Normalize(text), Normalize(patterns[i]), match_type)

----------------------------------------------------------------------------
(* Types (types.rs) *)

\* ElementRole, serialized lowercase
ElementRoles ==
    {"button", "link", "textbox", "checkbox", "radio", "combobox", "listbox",
     "option", "menu", "menuitem", "tab", "tabpanel", "dialog", "alertdialog",
     "switch", "slider", "spinbutton", "searchbox", "heading", "image",
     "navigation", "main", "region", "form", "grid", "gridcell", "row",
     "rowgroup", "cell", "columnheader", "rowheader", "tree", "treeitem",
     "tooltip", "status", "alert", "progressbar", "separator", "group",
     "article", "generic"}

\* state_flags (FLAG_ENABLED is state_flags::ENABLED, and so on)
FLAG_VISIBLE == 1
FLAG_ENABLED == 2
FLAG_CHECKED == 4
FLAG_EXPANDED == 8
FLAG_FOCUSED == 16
FLAG_SELECTED == 32

\* (state_bits & flag) != 0, flag a power of two
HasFlag(state_bits, flag) == (state_bits \div flag) % 2 = 1

\* Rect
Rect(x, y, width, height) == [x |-> x, y |-> y, width |-> width, height |-> height]

\* NodeRecord
NodeRecord(id, role, name, state_bits, attrs, context, rect, fingerprint, tag_name) ==
    [id |-> id, frame_id |-> 0, role |-> role, name |-> name,
     state_bits |-> state_bits, attrs |-> attrs, context |-> context,
     rect |-> rect, fingerprint |-> fingerprint, tag_name |-> tag_name]

----------------------------------------------------------------------------
(* UiDatabase (db.rs).  A database value is the record                     *)
(* [records, role_index, token_index, testid_index, synonyms].             *)

\* The synonym groups of init_synonyms
SynonymGroups ==
    << <<"login", "sign in", "anmelden", "einloggen", "log in">>,
       <<"logout", "sign out", "abmelden", "log out">>,
       <<"submit", "send", "absenden", "senden", "ok", "confirm">>,
       <<"cancel", "abbrechen", "close", "schließen">>,
       <<"save", "speichern", "apply">>,
       <<"delete", "remove", "löschen", "entfernen">>,
       <<"edit", "bearbeiten", "modify", "ändern">>,
       <<"search", "suchen", "find", "finden">>,
       <<"next", "weiter", "continue", "fortfahren">>,
       <<"back", "zurück", "previous">>,
       <<"home", "startseite", "main">>,
       <<"settings", "einstellungen", "preferences", "options">>,
       <<"help", "hilfe", "support">>,
       <<"profile", "profil", "account", "konto">>,
       <<"password", "passwort", "kennwort">>,
       <<"email", "e-mail", "mail">>,
       <<"username", "benutzername", "user">> >>

\* The words of the groups
SynonymWords ==
    UNION {Range(SynonymGroups[g]) : g \in 1..Len(SynonymGroups)}

\* The words of a group that follow the word: the earlier ones are left out.
OtherWordsAfter(group, word) ==
    LET at == CHOOSE i \in 1..Len(group) : group[i] = word
    IN SubSeq(group, at + 1, Len(group))

\* The other words of a group, in the group's order
OtherWords(group, word) == SelectSeq(group, LAMBDA w : w # word)

\* UiDatabase::init_synonyms: every word of every group is inserted with the
\* other words of the group; an insert replaces an earlier one of the same
\* word, so a word keeps the list of the last group that holds it.
InitSynonyms ==
    [word \in SynonymWords |->
        LET holding == {g \in 1..Len(SynonymGroups) : Contains(SynonymGroups[g], word)}
            last == CHOOSE g \in holding : \A h \in holding : h <= g
        IN OtherWords(SynonymGroups[last], word)]

\* UiDatabase::new
DbNew ==
    [records |-> <<>>, role_index |-> EmptyMap, token_index |-> EmptyMap,
     testid_index |-> EmptyMap, synonyms |-> InitSynonyms]

\* A reset that clears the records and leaves the indices.
DbResetKeepIndices(db) == [db EXCEPT !.records = <<>>]

\* UiDatabase::reset
DbReset(db) ==
    [db EXCEPT !.records = <<>>, !.role_index = EmptyMap,
               !.token_index = EmptyMap, !.testid_index = EmptyMap]

\* map.entry(key).or_default()
EntryOrDefault(m, key) == IF key \in DOMAIN m THEN m[key] ELSE <<>>

\* The token loop of ingest that pushes idx without looking for it first.
RECURSIVE IndexTokensNoDedup(_, _, _)
IndexTokensNoDedup(index, tokens, idx) ==
    IF tokens = <<>> THEN index
    ELSE IndexTokensNoDedup(
            MapInsert(index, Head(tokens),
                      Append(EntryOrDefault(index, Head(tokens)), idx)),
            Tail(tokens), idx)

\* The token loop of ingest: push idx on the token's list unless it is there
RECURSIVE IndexTokens(_, _, _)
IndexTokens(index, tokens, idx) ==
    IF tokens = <<>> THEN index
    ELSE LET list == EntryOrDefault(index, Head(tokens))
         IN IndexTokens(
               MapInsert(index, Head(tokens),
                         IF Contains(list, idx) THEN list ELSE Append(list, idx)),
               Tail(tokens), idx)

\* The tokens of a record: those of its name, then those of each context string
RecordTokens(record) ==
    Tokenize(Chars(record.name))
        \o Flatten([i \in 1..Len(record.context) |->
                       Tokenize(Chars(record.context[i]))])

\* A loop body that pushes the 1-based position on the role list.
IndexRecordOneBased(db, idx) ==
    LET record == db.records[idx + 1]
    IN [db EXCEPT
          !.role_index = MapInsert(@, record.role,
                                   Append(EntryOrDefault(@, record.role), idx + 1)),
          !.token_index = IndexTokens(@, RecordTokens(record), idx),
          !.testid_index = IF "data-testid" \in DOMAIN record.attrs
                           THEN MapInsert(@, record.attrs["data-testid"], idx)
                           ELSE @]

\* The body of ingest's loop for the record at position idx
IndexRecord(db, idx) ==
    LET record == db.records[idx + 1]
    IN [db EXCEPT
          !.role_index = MapInsert(@, record.role,
                                   Append(EntryOrDefault(@, record.role), idx)),
          !.token_index = IndexTokens(@, RecordTokens(record), idx),
          !.testid_index = IF "data-testid" \in DOMAIN record.attrs
                           THEN MapInsert(@, record.attrs["data-testid"], idx)
                           ELSE @]

RECURSIVE IngestLoop(_, _)
IngestLoop(db, idx) ==
    IF idx >= Len(db.records) THEN db ELSE IngestLoop(IndexRecord(db, idx), idx + 1)

\* An ingest that replaces the records and indexes them without the reset.
DbIngestNoReset(db, new_records) ==
    IngestLoop([db EXCEPT !.records = new_records], 0)

\* UiDatabase::ingest
DbIngest(db, new_records) ==
    IngestLoop([DbReset(db) EXCEPT !.records = new_records], 0)

\* UiDatabase::size
DbSize(db) == Len(db.records)

\* A lookup that takes the id for a position.
DbGetRecordByPosition(db, id) ==
    IF id < Len(db.records) THEN Some(db.records[id + 1]) ELSE None

\* UiDatabase::get_record: the first record with that id
DbGetRecord(db, id) ==
    IF \E i \in 1..Len(db.records) : db.records[i].id = id
    THEN Some(db.records[CHOOSE i \in 1..Len(db.records) :
                   /\ db.records[i].id = id
                   /\ \A j \in 1..(i - 1) : db.records[j].id # id])
    ELSE None

----------------------------------------------------------------------------
(* On-wire JSON.  A JSON value is tagged with its type; an object is a     *)
(* function from its keys to JSON values.                                  *)

JStr(v) == [t |-> "string", v |-> v]
JNum(v) == [t |-> "number", v |-> v]
JBool(v) == [t |-> "bool", v |-> v]
JArr(v) == [t |-> "array", v |-> v]
JObj(v) == [t |-> "object", v |-> v]

\* One key, two keys, ... of an object
K1(k, v) == [x \in {k} |-> v]
K2(k1, v1, k2, v2) == [x \in {k1, k2} |-> IF x = k1 THEN v1 ELSE v2]
K3(k1, v1, k2, v2, k3, v3) ==
    [x \in {k1, k2, k3} |-> IF x = k1 THEN v1 ELSE IF x = k2 THEN v2 ELSE v3]

HasKey(obj, k) == obj.t = "object" /\ k \in DOMAIN obj.v

\* A field with #[serde(default)] of type Option<T>: absent is None.  ok says
\* whether a present value has the type T.
OptField(obj, k, type) ==
    IF k \in DOMAIN obj.v
    THEN [ok |-> obj.v[k].t = type,
          value |-> IF obj.v[k].t = type THEN Some(obj.v[k].v) ELSE None]
    ELSE [ok |-> TRUE, value |-> None]

\* A required field of type T
ReqField(obj, k, type) == k \in DOMAIN obj.v /\ obj.v[k].t = type

MatchTypes == {"exact", "contains", "fuzzy", "regex"}

\* RoleValue (untagged): Single(ElementRole), then Multiple(Vec<ElementRole>).
\* Both arms of the executor turn it into the list of its roles.
ParseRoleValue(j) ==
    IF j.t = "string" /\ j.v \in ElementRoles THEN Some(<<j.v>>)
    ELSE IF j.t = "array" /\ \A i \in 1..Len(j.v) :
                                j.v[i].t = "string" /\ j.v[i].v \in ElementRoles
    THEN Some([i \in 1..Len(j.v) |-> j.v[i].v])
    ELSE None

\* StateFilter: six optional booleans, each #[serde(default)]
StateKeys == <<"visible", "enabled", "checked", "expanded", "focused", "selected">>

ParseStateFilter(j) ==
    IF j.t = "object" /\ \A i \in 1..Len(StateKeys) : OptField(j, StateKeys[i], "bool").ok
    THEN Some([visible |-> OptField(j, "visible", "bool").value,
               enabled |-> OptField(j, "enabled", "bool").value,
               checked |-> OptField(j, "checked", "bool").value,
               expanded |-> OptField(j, "expanded", "bool").value,
               focused |-> OptField(j, "focused", "bool").value,
               selected |-> OptField(j, "selected", "bool").value])
    ELSE None

\* TextFilter: match (renamed from match_type) and value, both required
ParseTextFilter(j) ==
    IF /\ j.t = "object"
       /\ ReqField(j, "match", "string")
       /\ j.v["match"].v \in MatchTypes
       /\ ReqField(j, "value", "string")
    THEN Some([match_type |-> j.v["match"].v, value |-> j.v["value"].v])
    ELSE None

\* AttrFilter: name and value required, match optional
ParseAttrFilter(j) ==
    IF /\ j.t = "object"
       /\ ReqField(j, "name", "string")
       /\ ReqField(j, "value", "string")
       /\ OptField(j, "match", "string").ok
       /\ ("match" \in DOMAIN j.v => j.v["match"].v \in MatchTypes)
    THEN Some([name |-> j.v["name"].v, value |-> j.v["value"].v,
               match_type |-> OptField(j, "match", "string").value])
    ELSE None

\* default_radius
DefaultRadius == 200

\* NearFilter: target_id and text optional, radius defaulted; the struct has
\* no rename, so the keys are target_id, text and radius and any other key
\* is skipped.
ParseNearFilter(j) ==
    IF /\ j.t = "object"
       /\ OptField(j, "target_id", "number").ok
       /\ OptField(j, "text", "string").ok
       /\ OptField(j, "radius", "number").ok
    THEN Some([target_id |-> OptField(j, "target_id", "number").value,
               text |-> OptField(j, "text", "string").value,
               radius |-> IF "radius" \in DOMAIN j.v THEN j.v["radius"].v
                          ELSE DefaultRadius])
    ELSE None

\* WhereClause (untagged): the variants are tried in the order of their
\* declaration and the first whose fields deserialize is taken; a variant
\* needs its own key and skips every other key of the object.
ParseWhereClause(j) ==
    IF j.t # "object" THEN None
    ELSE IF "role" \in DOMAIN j.v /\ ParseRoleValue(j.v["role"]) # None
    THEN Some([kind |-> "Role", role |-> ParseRoleValue(j.v["role"])[1]])
    ELSE IF "state" \in DOMAIN j.v /\ ParseStateFilter(j.v["state"]) # None
    THEN Some([kind |-> "State", state |-> ParseStateFilter(j.v["state"])[1]])
    ELSE IF "name" \in DOMAIN j.v /\ ParseTextFilter(j.v["name"]) # None
    THEN Some([kind |-> "Name", name |-> ParseTextFilter(j.v["name"])[1]])
    ELSE IF "in_context" \in DOMAIN j.v /\ ParseTextFilter(j.v["in_context"]) # None
    THEN Some([kind |-> "Context",
               in_context |-> ParseTextFilter(j.v["in_context"])[1]])
    ELSE IF "attr" \in DOMAIN j.v /\ ParseAttrFilter(j.v["attr"]) # None
    THEN Some([kind |-> "Attr", attr |-> ParseAttrFilter(j.v["attr"])[1]])
    ELSE IF "near" \in DOMAIN j.v /\ ParseNearFilter(j.v["near"]) # None
    THEN Some([kind |-> "Near", near |-> ParseNearFilter(j.v["near"])[1]])
    ELSE IF ReqField(j, "nth", "number") /\ j.v["nth"].v >= 0
    THEN Some([kind |-> "Nth", nth |-> j.v["nth"].v])
    ELSE None

\* OrderBy: field and direction, both optional strings
ParseOrderBy(j) ==
    IF /\ j.t = "object"
       /\ OptField(j, "field", "string").ok
       /\ OptField(j, "direction", "string").ok
    THEN Some([field |-> OptField(j, "field", "string").value,
               direction |-> OptField(j, "direction", "string").value])
    ELSE None

\* QueryAST: where is required; select, order_by, limit and offset are
\* optional.  The struct has no rename, so the key of order_by is order_by.
ParseQueryAST(j) ==
    IF /\ j.t = "object"
       /\ ReqField(j, "where", "array")
       /\ \A i \in 1..Len(j.v["where"].v) : ParseWhereClause(j.v["where"].v[i]) # None
       /\ OptField(j, "select", "string").ok
       /\ OptField(j, "order_by", "array").ok
       /\ ("order_by" \in DOMAIN j.v =>
              \A i \in 1..Len(j.v["order_by"].v) :
                  ParseOrderBy(j.v["order_by"].v[i]) # None)
       /\ OptField(j, "limit", "number").ok
       /\ ("limit" \in DOMAIN j.v => j.v["limit"].v >= 0)
       /\ OptField(j, "offset", "number").ok
       /\ ("offset" \in DOMAIN j.v => j.v["offset"].v >= 0)
    THEN Some([select |-> OptField(j, "select", "string").value,
               where |-> [i \in 1..Len(j.v["where"].v) |->
                             ParseWhereClause(j.v["where"].v[i])[1]],
               order_by |-> IF "order_by" \in DOMAIN j.v
                            THEN Some([i \in 1..Len(j.v["order_by"].v) |->
                                          ParseOrderBy(j.v["order_by"].v[i])[1]])
                            ELSE None,
               limit |-> OptField(j, "limit", "number").value,
               offset |-> OptField(j, "offset", "number").value])
    ELSE None

----------------------------------------------------------------------------
(* QueryExecutor (query.rs) *)

\* bool and Option<u32> as format! prints them
BoolStr(b) == IF b THEN "true" ELSE "false"
OptionDebugStr(o) == IF o = None THEN "None" ELSE "Some(" \o ToString(o[1]) \o ")"

RECURSIVE JoinStr(_, _)
JoinStr(ss, sep) ==
    IF ss = <<>> THEN ""
    ELSE IF Len(ss) = 1 THEN ss[1]
    ELSE ss[1] \o sep \o JoinStr(Tail(ss), sep)

\* Vec::dedup: consecutive equal elements collapse into one
RECURSIVE Dedup(_)
Dedup(v) ==
    IF Len(v) <= 1 THEN v
    ELSE IF v[1] = v[2] THEN Dedup(Tail(v))
    ELSE <<v[1]>> \o Dedup(Tail(v))

\* The positions 0..n-1
Positions(n) == 0..(n - 1)

\* The union of the role_index lists of the roles
RolePositions(db, roles) ==
    UNION {Range(EntryOrDefault(db.role_index, roles[i])) : i \in 1..Len(roles)}

\* Whether a record passes a state clause
StateMatches(record, state) ==
    /\ state.visible # None => HasFlag(record.state_bits, FLAG_VISIBLE) = state.visible[1]
    /\ state.enabled # None => HasFlag(record.state_bits, FLAG_ENABLED) = state.enabled[1]
    /\ state.checked # None => HasFlag(record.state_bits, FLAG_CHECKED) = state.checked[1]
    /\ state.expanded # None => HasFlag(record.state_bits, FLAG_EXPANDED) = state.expanded[1]
    /\ state.focused # None => HasFlag(record.state_bits, FLAG_FOCUSED) = state.focused[1]
    /\ state.selected # None => HasFlag(record.state_bits, FLAG_SELECTED) = state.selected[1]

\* What one record pushes on state_names
StateNamesOfRecord(state) ==
    (IF state.visible # None THEN <<"visible=" \o BoolStr(state.visible[1])>> ELSE <<>>)
        \o (IF state.enabled # None THEN <<"enabled=" \o BoolStr(state.enabled[1])>>
            ELSE <<>>)

\* state_names after the loop over the records
StateNames(n_records, state) ==
    Flatten([i \in 1..n_records |-> StateNamesOfRecord(state)])

\* The patterns of a name or context clause: split on '|', trimmed, lowercased
SplitPatterns(value) ==
    LET parts == SplitOn(Chars(value), "|", <<>>)
    IN [i \in 1..Len(parts) |-> ToLowercase(Trim(parts[i]))]

\* synonyms.get(pattern): the words listed under the key whose characters
\* are those of the pattern, none when there is no such key
SynonymsGet(syns, pattern) ==
    LET keys == {w \in DOMAIN syns : Chars(w) = pattern}
    IN IF keys = {} THEN <<>>
       ELSE LET others == syns[CHOOSE w \in keys : TRUE]
            IN [j \in 1..Len(others) |-> Chars(others[j])]

\* The patterns of a name clause, each followed at the end by its syns
ExpandSynonyms(syns, patterns) ==
    patterns \o Flatten([i \in 1..Len(patterns) |-> SynonymsGet(syns, patterns[i])])

\* Twice the center of a rectangle (x + width / 2, y + height / 2)
Center2(rect) == <<2 * rect.x + rect.width, 2 * rect.y + rect.height>>

\* The first member of a set of indices into the records, as iter().find
\* takes it
FirstOf(recs, found) ==
    IF found = {} THEN None
    ELSE Some(recs[CHOOSE i \in found : \A j \in found : i <= j])

\* The target of a near clause: by target_id when one is given, else by text
NearTarget(recs, near) ==
    IF near.target_id # None
    THEN FirstOf(recs, {i \in 1..Len(recs) : recs[i].id = near.target_id[1]})
    ELSE IF near.text # None
    THEN FirstOf(recs, {i \in 1..Len(recs) :
                          StrContains(ToLowercase(Chars(recs[i].name)),
                                      ToLowercase(Chars(near.text[1])))})
    ELSE None

\* distance <= radius, on the doubled centers
WithinRadius(rect, target_rect, radius) ==
    LET c == Center2(rect)
        t == Center2(target_rect)
    IN /\ radius >= 0
       /\ (c[1] - t[1]) * (c[1] - t[1]) + (c[2] - t[2]) * (c[2] - t[2])
             <= 4 * radius * radius

MatchTypeOrExact(m) == IF m = None THEN "exact" ELSE m[1]

\* apply_filter: the positions that pass the clause and the description it
\* appends to filters_applied
ApplyFilter(db, clause) ==
    LET recs == db.records
        n == Len(recs)
    IN CASE clause.kind = "Role" ->
              [result |-> RolePositions(db, clause.role),
               applied |-> "role=" \o JoinStr(clause.role, "|")]
         [] clause.kind = "State" ->
              [result |-> {idx \in Positions(n) :
                              StateMatches(recs[idx + 1], clause.state)},
               applied |-> "state(" \o JoinStr(Dedup(StateNames(n, clause.state)), ",")
                              \o ")"]
         [] clause.kind = "Name" ->
              LET patterns == ExpandSynonyms(db.synonyms, SplitPatterns(clause.name.value))
              IN [result |-> {idx \in Positions(n) :
                                 MatchText(Chars(recs[idx + 1].name), patterns,
                                           clause.name.match_type)},
                  applied |-> "name(" \o clause.name.match_type \o ":"
                                 \o clause.name.value \o ")"]
         [] clause.kind = "Context" ->
              LET patterns == SplitPatterns(clause.in_context.value)
              IN [result |-> {idx \in Positions(n) :
                                 MatchText(Chars(JoinStr(recs[idx + 1].context, " ")),
                                           patterns, clause.in_context.match_type)},
                  applied |-> "context(" \o clause.in_context.match_type \o ":"
                                 \o clause.in_context.value \o ")"]
         [] clause.kind = "Attr" ->
              [result |-> {idx \in Positions(n) :
                              /\ clause.attr.name \in DOMAIN recs[idx + 1].attrs
                              /\ MatchText(Chars(recs[idx + 1].attrs[clause.attr.name]),
                                           <<Chars(clause.attr.value)>>,
                                           MatchTypeOrExact(clause.attr.match_type))},
               applied |-> "attr(" \o clause.attr.name \o "=" \o clause.attr.value \o ")"]
         [] clause.kind = "Near" ->
              LET target == NearTarget(recs, clause.near)
              IN [result |-> IF target = None THEN {}
                             ELSE {idx \in Positions(n) :
                                      WithinRadius(recs[idx + 1].rect, target[1].rect,
                                                   clause.near.radius)},
                  applied |-> "near("
                                 \o OptionDebugStr(IF clause.near.target_id # None
                                                   THEN clause.near.target_id
                                                   ELSE IF clause.near.text # None
                                                   THEN Some(0) ELSE None)
                                 \o ", r=" \o ToString(clause.near.radius) \o ")"]
         [] clause.kind = "Nth" ->
              [result |-> Positions(n), applied |-> "nth"]

\* A filter loop that adds each clause's positions to the candidates.
RECURSIVE FilterLoopUnion(_, _, _, _)
FilterLoopUnion(db, where, i, acc) ==
    IF i > Len(where) THEN acc
    ELSE LET f == ApplyFilter(db, where[i])
         IN FilterLoopUnion(db, where, i + 1,
               [candidates |-> IF acc.first_filter THEN f.result
                               ELSE acc.candidates \cup f.result,
                first_filter |-> FALSE,
                filters_applied |-> Append(acc.filters_applied, f.applied)])

\* The filter loop of execute: the first clause replaces the candidates, each
\* later one is intersected with them
RECURSIVE FilterLoop(_, _, _, _)
FilterLoop(db, where, i, acc) ==
    IF i > Len(where) THEN acc
    ELSE LET f == ApplyFilter(db, where[i])
         IN FilterLoop(db, where, i + 1,
               [candidates |-> IF acc.first_filter THEN f.result
                               ELSE acc.candidates \cap f.result,
                first_filter |-> FALSE,
                filters_applied |-> Append(acc.filters_applied, f.applied)])

\* What one clause adds to a record's score
ClauseScore(record, clause) ==
    CASE clause.kind = "Name" ->
            FracMul(FuzzyScore(Chars(clause.name.value), Chars(record.name)), Frac(3, 10))
      [] clause.kind = "Context" ->
            FracMul(FuzzyScore(Chars(clause.in_context.value),
                               Chars(JoinStr(record.context, " "))),
                    Frac(2, 10))
      [] clause.kind = "Role" ->
            IF Contains(clause.role, record.role) THEN Frac(1, 10) ELSE Frac(0, 1)
      [] clause.kind = "State" -> Frac(5, 100)
      [] OTHER -> Frac(0, 1)

RECURSIVE SumClauseScores(_, _, _, _)
SumClauseScores(record, where, i, score) ==
    IF i > Len(where) THEN score
    ELSE SumClauseScores(record, where, i + 1,
                         FracAdd(score, ClauseScore(record, where[i])))

\* The rect.y below which a record gets the upper-viewport boost
UpperViewportY == 300

\* score_candidate: the base score and the clauses' shares, then the boosts
\* for a data-testid and for the upper viewport, capped at 1
ScoreCandidate(db, idx, query) ==
    FracMin(
        FracAdd(FracAdd(SumClauseScores(db.records[idx + 1], query.where, 1, Frac(5, 10)),
                        IF "data-testid" \in DOMAIN db.records[idx + 1].attrs
                        THEN Frac(1, 10) ELSE Frac(0, 1)),
                IF db.records[idx + 1].rect.y < UpperViewportY
                THEN Frac(5, 100) ELSE Frac(0, 1)),
        Frac(1, 1))

\* The comparators execute hands to sort_by, on scored pairs <<idx, score>>:
\* whether a is ordered strictly before b
SortLess(recs, key, a, b) ==
    CASE key = "score_desc" -> FracLess(b[2], a[2])
      [] key = "score_asc" -> FracLess(a[2], b[2])
      [] key = "y_desc" -> recs[b[1] + 1].rect.y < recs[a[1] + 1].rect.y
      [] key = "y_asc" -> recs[a[1] + 1].rect.y < recs[b[1] + 1].rect.y
      [] key = "x_desc" -> recs[b[1] + 1].rect.x < recs[a[1] + 1].rect.x
      [] key = "x_asc" -> recs[a[1] + 1].rect.x < recs[b[1] + 1].rect.x

\* Vec::sort_by, a stable sort: elements that compare equal keep their order
RECURSIVE InsertSorted(_, _, _, _)
InsertSorted(recs, key, sorted, x) ==
    IF sorted = <<>> THEN <<x>>
    ELSE IF SortLess(recs, key, x, sorted[Len(sorted)])
    THEN Append(InsertSorted(recs, key, SubSeq(sorted, 1, Len(sorted) - 1), x),
                sorted[Len(sorted)])
    ELSE Append(sorted, x)

RECURSIVE SortBy(_, _, _)
SortBy(recs, key, v) ==
    IF v = <<>> THEN <<>>
    ELSE InsertSorted(recs, key, SortBy(recs, key, SubSeq(v, 1, Len(v) - 1)),
                      v[Len(v)])

\* The iteration order of the candidate FxHashSet<usize>: the members in the
\* order hash_seq gives to the positions
IterOrder(set, hash_seq) == SelectSeq(hash_seq, LAMBDA p : p \in set)

\* The ordering step of execute on the scored pairs <<idx, score>>
OrderScored(db, scored, query) ==
    IF query.order_by # None
    THEN IF query.order_by[1] # <<>>
         THEN LET order == query.order_by[1][1]
                  field == IF order.field = None THEN "score" ELSE order.field[1]
                  desc == order.direction # Some("asc")
              IN CASE field = "score" ->
                         SortBy(db.records, IF desc THEN "score_desc" ELSE "score_asc",
                                scored)
                   [] field = "y" ->
                         SortBy(db.records, IF desc THEN "y_desc" ELSE "y_asc", scored)
                   [] field = "x" ->
                         SortBy(db.records, IF desc THEN "x_desc" ELSE "x_asc", scored)
                   [] OTHER -> SortBy(db.records, "score_desc", scored)
         ELSE scored
    ELSE SortBy(db.records, "score_desc", scored)

DefaultLimit == 10

\* A page that takes one element more than limit.
PaginateOneMore(v, offset, limit) ==
    SubSeq(v, offset + 1, Min(Len(v), offset + limit + 1))

\* skip(offset).take(limit)
Paginate(v, offset, limit) ==
    SubSeq(v, offset + 1, Min(Len(v), offset + limit))

ClickableRoles ==
    {"button", "link", "tab", "menuitem", "option", "checkbox", "radio", "switch"}
TypeableRoles == {"textbox", "searchbox", "combobox", "spinbutton"}
CheckableRoles == {"checkbox", "radio", "switch"}
SelectableRoles == {"option", "tab", "treeitem", "gridcell"}

\* (score * 100.0).round() / 100.0 for score >= 0: halves round away from zero
RoundHundredths(score) == Frac((200 * score[1] + score[2]) \div (2 * score[2]), 100)

FlagOption(state_bits, flag) == IF HasFlag(state_bits, flag) THEN Some(TRUE) ELSE None

\* record_to_match
RecordToMatch(record, score) ==
    LET is_visible == HasFlag(record.state_bits, FLAG_VISIBLE)
        is_enabled == HasFlag(record.state_bits, FLAG_ENABLED)
        actionable == is_visible /\ is_enabled
    IN [id |-> record.id,
        score |-> RoundHundredths(score),
        role |-> record.role,
        name |-> record.name,
        states |-> [visible |-> is_visible,
                    enabled |-> is_enabled,
                    checked |-> FlagOption(record.state_bits, FLAG_CHECKED),
                    expanded |-> FlagOption(record.state_bits, FLAG_EXPANDED),
                    focused |-> FlagOption(record.state_bits, FLAG_FOCUSED),
                    selected |-> FlagOption(record.state_bits, FLAG_SELECTED)],
        context |-> record.context,
        actionability |-> [click |-> actionable /\ record.role \in ClickableRoles,
                           type |-> actionable /\ record.role \in TypeableRoles,
                           check |-> actionable /\ record.role \in CheckableRoles,
                           select |-> actionable /\ record.role \in SelectableRoles,
                           scroll |-> is_visible],
        rect |-> record.rect]

\* execute, the scoring step: the candidates in iteration order, each with
\* its score
Scored(db, iterated, query) ==
    [i \in 1..Len(iterated) |-> <<iterated[i], ScoreCandidate(db, iterated[i], query)>>]

\* execute, from the conversion on.  positions is the paginated list of
\* record positions, which the code holds in a local and the result does not
\* carry.
ExecutePaginated(db, elapsed, filters_applied, total, paginated) ==
    [ok |-> TRUE,
     matches |-> [i \in 1..Len(paginated) |->
                     RecordToMatch(db.records[paginated[i][1] + 1], paginated[i][2])],
     total |-> total,
     explain |-> [candidates_considered |-> total,
                  filters_applied |-> filters_applied,
                  execution_time_ms |-> elapsed],
     positions |-> [i \in 1..Len(paginated) |-> paginated[i][1]]]

\* execute, from total on
ExecuteSorted(db, elapsed, query, filters_applied, sorted) ==
    ExecutePaginated(db, elapsed, filters_applied, Len(sorted),
        Paginate(sorted,
                 IF query.offset = None THEN 0 ELSE query.offset[1],
                 IF query.limit = None THEN DefaultLimit ELSE query.limit[1]))

\* execute, from the scoring on
ExecuteFiltered(db, hash_seq, elapsed, query, filtered) ==
    ExecuteSorted(db, elapsed, query, filtered.filters_applied,
        OrderScored(db, Scored(db, IterOrder(filtered.candidates, hash_seq), query),
                    query))

\* QueryExecutor::execute.  hash_seq is the iteration order of the hash set
\* and elapsed what the clock measured.
Execute(db, hash_seq, elapsed, query) ==
    ExecuteFiltered(db, hash_seq, elapsed, query,
        FilterLoop(db, query.where, 1,
                   [candidates |-> Positions(Len(db.records)),
                    first_filter |-> TRUE,
                    filters_applied |-> <<>>]))

\* UiDatabase::query, the parse done
QueryParsed(db, hash_seq, elapsed, parsed) ==
    IF parsed = None
    THEN [ok |-> FALSE, error |-> "Failed to parse query"]
    ELSE Execute(db, hash_seq, elapsed, parsed[1])

\* UiDatabase::query: parse the JSON, then execute
DbQuery(db, hash_seq, elapsed, query_json) ==
    QueryParsed(db, hash_seq, elapsed, ParseQueryAST(query_json))

----------------------------------------------------------------------------
(* EmbeddingCache (cache.rs).  A cache value is the record                 *)
(* [entries, access_order, capacity]; each operation maps a cache value to *)
(* the cache value it leaves and the value it returns.                     *)

\* EmbeddingCache::new
CacheNew(cap) == [entries |-> EmptyMap, access_order |-> <<>>, capacity |-> cap]

\* EmbeddingCache::size
CacheSize(c) == Cardinality(DOMAIN c.entries)

\* A get that returns the vector and leaves the recency order alone.
CacheGetNoReorder(c, fingerprint) ==
    IF fingerprint \in DOMAIN c.entries
    THEN [cache |-> [c EXCEPT !.entries[fingerprint].access_count = @ + 1],
          result |-> Some(c.entries[fingerprint].embedding)]
    ELSE [cache |-> c, result |-> None]

\* EmbeddingCache::get
CacheGet(c, fingerprint) ==
    IF fingerprint \in DOMAIN c.entries
    THEN [cache |-> [c EXCEPT
                       !.access_order = Append(Retain(@, fingerprint), fingerprint),
                       !.entries[fingerprint].access_count = @ + 1],
          result |-> Some(c.entries[fingerprint].embedding)]
    ELSE [cache |-> c, result |-> None]

\* The same lookup done the way get does it.
CachePeekTouching(c, fingerprint) == CacheGet(c, fingerprint)

\* EmbeddingCache::peek (&self: the cache is left as it is)
CachePeek(c, fingerprint) ==
    [cache |-> c,
     result |-> IF fingerprint \in DOMAIN c.entries
                THEN Some(c.entries[fingerprint].embedding)
                ELSE None]

\* An eviction loop that pops the newest entry instead of the oldest.
RECURSIVE EvictLoopNewest(_, _)
EvictLoopNewest(c, evicted) ==
    IF CacheSize(c) >= c.capacity
    THEN IF c.access_order # <<>>
         THEN LET n == Len(c.access_order) IN
              EvictLoopNewest([c EXCEPT
                           !.entries = MapRemove(@, c.access_order[n]),
                           !.access_order = SubSeq(@, 1, n - 1)],
                        Append(evicted, c.access_order[n]))
         ELSE [cache |-> c, evicted |-> evicted, terminates |-> FALSE]
    ELSE [cache |-> c, evicted |-> evicted, terminates |-> TRUE]

\* An eviction loop that goes on until one more slot than needed is free.
RECURSIVE EvictLoopBelow(_, _)
EvictLoopBelow(c, evicted) ==
    IF CacheSize(c) + 1 >= c.capacity
    THEN IF c.access_order # <<>>
         THEN EvictLoopBelow([c EXCEPT
                           !.entries = MapRemove(@, Head(c.access_order)),
                           !.access_order = Tail(@)],
                        Append(evicted, Head(c.access_order)))
         ELSE [cache |-> c, evicted |-> evicted, terminates |-> FALSE]
    ELSE [cache |-> c, evicted |-> evicted, terminates |-> TRUE]

\* The eviction loop of put: while entries.len() >= capacity, pop the front
\* of access_order and remove it from entries.  When the loop condition holds
\* and access_order is empty the loop body changes nothing and the loop does
\* not end (terminates = FALSE).
RECURSIVE EvictLoop(_, _)
EvictLoop(c, evicted) ==
    IF CacheSize(c) >= c.capacity
    THEN IF c.access_order # <<>>
         THEN EvictLoop([c EXCEPT
                           !.entries = MapRemove(@, Head(c.access_order)),
                           !.access_order = Tail(@)],
                        Append(evicted, Head(c.access_order)))
         ELSE [cache |-> c, evicted |-> evicted, terminates |-> FALSE]
    ELSE [cache |-> c, evicted |-> evicted, terminates |-> TRUE]

\* A put that, on a key already present, appends the key without removing
\* its older occurrence.
CachePutNoRetain(c, fingerprint, embedding) ==
    IF fingerprint \in DOMAIN c.entries
    THEN [cache |-> [c EXCEPT
                       !.entries[fingerprint].embedding = embedding,
                       !.access_order = Append(@, fingerprint)],
          evicted |-> <<>>, terminates |-> TRUE]
    ELSE LET ev == EvictLoop(c, <<>>) IN
         IF ev.terminates
         THEN [cache |-> [ev.cache EXCEPT
                            !.entries = MapInsert(@, fingerprint,
                                [embedding |-> embedding, access_count |-> 1]),
                            !.access_order = Append(@, fingerprint)],
               evicted |-> ev.evicted, terminates |-> TRUE]
         ELSE ev

\* EmbeddingCache::put
CachePut(c, fingerprint, embedding) ==
    IF fingerprint \in DOMAIN c.entries
    THEN [cache |-> [c EXCEPT
                       !.entries[fingerprint].embedding = embedding,
                       !.access_order = Append(Retain(@, fingerprint), fingerprint)],
          evicted |-> <<>>, terminates |-> TRUE]
    ELSE LET ev == EvictLoop(c, <<>>) IN
         IF ev.terminates
         THEN [cache |-> [ev.cache EXCEPT
                            !.entries = MapInsert(@, fingerprint,
                                [embedding |-> embedding, access_count |-> 1]),
                            !.access_order = Append(@, fingerprint)],
               evicted |-> ev.evicted, terminates |-> TRUE]
         ELSE ev

\* EmbeddingCache::get_missing
CacheGetMissing(c, fingerprints) ==
    SelectSeq(fingerprints, LAMBDA fp : fp \notin DOMAIN c.entries)

\* EmbeddingCache::get_cached
CacheGetCached(c, fingerprints) ==
    LET present == SelectSeq(fingerprints, LAMBDA fp : fp \in DOMAIN c.entries)
    IN [i \in 1..Len(present) |-> <<present[i], c.entries[present[i]].embedding>>]

\* EmbeddingCache::clear
CacheClear(c) == [c EXCEPT !.entries = EmptyMap, !.access_order = <<>>]

----------------------------------------------------------------------------
(* Similarity kernel (similarity.rs).  f32 components are integers here.   *)

RECURSIVE Dot(_, _)
Dot(a, b) == IF a = <<>> THEN 0 ELSE a[1] * b[1] + Dot(Tail(a), Tail(b))

\* cosine_similarity: the dot product, 0 for mismatched or empty vectors
CosineSimilarity(a, b) == IF Len(a) # Len(b) \/ Len(a) = 0 THEN 0 ELSE Dot(a, b)

\* results.sort_by(|a, b| b.1.partial_cmp(&a.1)): stable, similarity descending
RECURSIVE InsertBySimilarity(_, _)
InsertBySimilarity(sorted, x) ==
    IF sorted = <<>> THEN <<x>>
    ELSE IF sorted[Len(sorted)][2] < x[2]
    THEN Append(InsertBySimilarity(SubSeq(sorted, 1, Len(sorted) - 1), x),
                sorted[Len(sorted)])
    ELSE Append(sorted, x)

RECURSIVE SortBySimilarity(_)
SortBySimilarity(v) ==
    IF v = <<>> THEN <<>>
    ELSE InsertBySimilarity(SortBySimilarity(SubSeq(v, 1, Len(v) - 1)), v[Len(v)])

\* batch_cosine_similarity on candidates <<id, embedding>>
BatchCosineSimilarity(query, candidates) ==
    SortBySimilarity([i \in 1..Len(candidates) |->
                         <<candidates[i][1], CosineSimilarity(query, candidates[i][2])>>])

\* A top_k_similar that does not truncate.
TopKSimilarAll(query, candidates, k) == BatchCosineSimilarity(query, candidates)

\* top_k_similar: truncate(k)
TopKSimilar(query, candidates, k) ==
    LET results == BatchCosineSimilarity(query, candidates)
    IN SubSeq(results, 1, Min(k, Len(results)))

----------------------------------------------------------------------------
(* WasmUiDb (lib.rs): the database and the embedding cache as state *)

TheDb ==
    [records |-> records, role_index |-> role_index, token_index |-> token_index,
     testid_index |-> testid_index, synonyms |-> synonyms]

SetDb(db) ==
    /\ records' = db.records
    /\ role_index' = db.role_index
    /\ token_index' = db.token_index
    /\ testid_index' = db.testid_index
    /\ synonyms' = db.synonyms

TheCache == [entries |-> entries, access_order |-> access_order, capacity |-> capacity]

SetCache(c) ==
    /\ entries' = c.entries
    /\ access_order' = c.access_order
    /\ capacity' = c.capacity

\* The gathering loop of semantic_rerank: for each id whose record exists,
\* peek the record's fingerprint and keep <<id, embedding>> when it is cached.
\* The cache is threaded through the peeks.
RECURSIVE GatherEmbeddings(_, _, _, _)
GatherEmbeddings(db, c, ids, acc) ==
    IF ids = <<>> THEN [cache |-> c, candidates |-> acc]
    ELSE LET record == DbGetRecord(db, Head(ids))
         IN IF record = None
            THEN GatherEmbeddings(db, c, Tail(ids), acc)
            ELSE LET p == CachePeek(c, record[1].fingerprint)
                 IN GatherEmbeddings(db, p.cache, Tail(ids),
                        IF p.result = None THEN acc
                        ELSE Append(acc, <<Head(ids), p.result[1]>>))

\* WasmUiDb::semantic_rerank
Rerank(db, c, query_embedding, candidate_ids, top_k) ==
    LET g == GatherEmbeddings(db, c, candidate_ids, <<>>)
        ranked == TopKSimilar(query_embedding, g.candidates, top_k)
    IN [cache |-> g.cache,
        result |-> [i \in 1..Len(ranked) |->
                       [id |-> ranked[i][1], similarity |-> ranked[i][2]]]]

\* The capacity WasmUiDb::new gives its cache
HostCapacity == 10000

----------------------------------------------------------------------------
(* Inputs *)

NoAttrs == EmptyMap

\* The records the corpora are made of.  The first two carry the same id;
\* the first and the third the same data-testid.
Pool ==
    << NodeRecord(1, "button", "Submit", 3, K1("data-testid", "ok"),
                  <<"Login form">>, Rect(0, 0, 50, 20), "a", "button"),
       NodeRecord(1, "link", "Home", 2, NoAttrs,
                  <<>>, Rect(0, 400, 40, 20), "b", "a"),
       NodeRecord(7, "button", "Anmelden", 1, K1("data-testid", "ok"),
                  <<"Login", "login form x">>, Rect(10, 10, 10, 10), "c", "button"),
       NodeRecord(3, "textbox", "E-mail a", 3, K1("type", "email"),
                  <<"Login form">>, Rect(0, 30, 100, 20), "b", "input") >>

\* The sequences of at most n distinct members of 1..m
Arrangements(m, n) ==
    {s \in UNION {[1..k -> 1..m] : k \in 0..n} : Distinct(s)}

\* The corpora handed to ingest: the sequences of at most MaxRecords distinct
\* records of the pool
Corpora ==
    {[i \in 1..Len(a) |-> Pool[a[i]]] : a \in Arrangements(Len(Pool), MaxRecords)}

\* The ids asked of get_record and semantic_rerank: those of the pool and one
\* that no record carries
Ids == {Pool[i].id : i \in 1..Len(Pool)} \cup {0}

\* The orders a hash set can yield the positions in
HashOrders ==
    {s \in [1..MaxRecords -> Positions(MaxRecords)] : Distinct(s)}

IdentityOrder == [i \in 1..MaxRecords |-> i - 1]

HostFingerprints == {"a", "b"}

NoCall == [op |-> "new"]

\* The calls that read the cache through peek
ReadOps == {"peek", "get_embedding", "semantic_rerank"}

\* The fingerprint lists handed to get_missing / get_cached
ProbeLists == {<<"a", "b", "c">>, <<"d", "a">>}

\* Where clauses as the host writes them
RoleClause(role) == JObj(K1("role", role))
StateClause(key, value) == JObj(K1("state", JObj(K1(key, JBool(value)))))
TextFilterJson(match, value) == JObj(K2("match", JStr(match), "value", JStr(value)))
NameClause(match, value) == JObj(K1("name", TextFilterJson(match, value)))
ContextClause(match, value) == JObj(K1("in_context", TextFilterJson(match, value)))
AttrClause(name, value) == JObj(K1("attr", JObj(K2("name", JStr(name), "value", JStr(value)))))
NearIdClause(id, radius) ==
    JObj(K1("near", JObj(K2("target_id", JNum(id), "radius", JNum(radius)))))
NthClause(n) == JObj(K1("nth", JNum(n)))

\* The clauses the where lists are made of
ClausePool ==
    << RoleClause(JStr("button")),
       StateClause("enabled", TRUE),
       NameClause("contains", "login"),
       NearIdClause(1, 15) >>

\* The clauses appended to a where list
MoreClauses ==
    ClausePool \o
    << RoleClause(JArr(<<JStr("link"), JStr("textbox")>>)),
       ContextClause("fuzzy", "login form"),
       AttrClause("data-testid", "ok"),
       NthClause(0) >>

WhereQuery(where) == JObj(K1("where", JArr(where)))

\* The queries made: where lists of one and two clauses, no sort at all, a
\* page, and one that does not parse
QueryInputs ==
    { WhereQuery(<<ClausePool[1], ClausePool[3]>>),
      WhereQuery(<<ClausePool[2], ClausePool[4]>>),
      WhereQuery(<<MoreClauses[6], MoreClauses[7]>>),
      JObj(K2("where", JArr(<<>>), "order_by", JArr(<<>>))),
      JObj(K3("where", JArr(<<StateClause("visible", TRUE)>>),
              "limit", JNum(1), "offset", JNum(1))),
      JObj(K1("select", JStr("*"))) }

\* The corpora the queries run on
QueryCorpora == {<<Pool[1], Pool[3]>>, <<Pool[2], Pool[1]>>}

\* The orders a hash set can yield the positions of these corpora in
QueryHashOrders ==
    LET n == CHOOSE n \in {Len(c) : c \in QueryCorpora} :
                 \A c \in QueryCorpora : Len(c) <= n
    IN {s \in [1..n -> Positions(n)] : Distinct(s)}

\* What the clock measures between the start and the end of a query
Elapsed == {0, 1}

----------------------------------------------------------------------------
(* Initial states *)

\* UiDatabase::new
InitDb ==
    /\ records = DbNew.records
    /\ role_index = DbNew.role_index
    /\ token_index = DbNew.token_index
    /\ testid_index = DbNew.testid_index
    /\ synonyms = DbNew.synonyms

\* EmbeddingCache::new(cap) beside a new database
InitCache ==
    /\ InitDb
    /\ \E cap \in 1..MaxCap : capacity = cap
    /\ entries = EmptyMap
    /\ access_order = <<>>
    /\ hash_order = IdentityOrder
    /\ ret = NoCall
    /\ clock = 0
    /\ last_use = [k \in Keys |-> 0]
    /\ put_run = Some(<<>>)
    /\ get_key = None
    /\ puts_after_get = 0
    /\ shadow = CacheNew(capacity)
    /\ seen_query = None
    /\ since_reset = None

\* WasmUiDb::new, in a build whose hash order is one of orders
InitWith(orders) ==
    /\ InitDb
    /\ capacity = HostCapacity
    /\ entries = EmptyMap
    /\ access_order = <<>>
    /\ hash_order \in orders
    /\ ret = NoCall
    /\ clock = 0
    /\ last_use = [k \in Keys |-> 0]
    /\ put_run = Some(<<>>)
    /\ get_key = None
    /\ puts_after_get = 0
    /\ shadow = CacheNew(capacity)
    /\ seen_query = None
    /\ since_reset = None

Init == InitWith(HashOrders)

----------------------------------------------------------------------------
(* The calls on the EmbeddingCache *)

\* cache.get(fingerprint)
Get(fingerprint) ==
    /\ clock < MaxClock
    /\ LET r == CacheGet(TheCache, fingerprint) IN
       /\ SetCache(r.cache)
       /\ ret' = [op |-> "get", key |-> fingerprint, result |-> r.result]
       /\ clock' = clock + 1
       /\ last_use' = IF r.result # None
                      THEN [last_use EXCEPT ![fingerprint] = clock + 1]
                      ELSE last_use
       /\ put_run' = None
       /\ get_key' = IF r.result # None THEN Some(fingerprint) ELSE None
       /\ puts_after_get' = 0
       /\ shadow' = CacheGet(shadow, fingerprint).cache
    /\ UNCHANGED <<db_vars, hash_order, seen_query, since_reset>>

\* cache.put(fingerprint, embedding), made as the call op; at most max_calls
\* get/put calls are made in a run
PutAs(op, max_calls, fingerprint, embedding) ==
    /\ clock < max_calls
    /\ LET r == CachePut(TheCache, fingerprint, embedding) IN
       /\ r.terminates
       /\ SetCache(r.cache)
       /\ ret' = [op |-> op, key |-> fingerprint, evicted |-> r.evicted,
                  keys_before |-> DOMAIN entries,
                  shadow_evicted |-> CachePut(shadow, fingerprint, embedding).evicted,
                  after_read |-> ret.op \in ReadOps /\ ret.result # <<>>]
       /\ clock' = clock + 1
       /\ last_use' = [last_use EXCEPT ![fingerprint] = clock + 1]
       /\ put_run' = IF put_run # None
                     THEN Some(Append(put_run[1], fingerprint))
                     ELSE None
       /\ get_key' = IF fingerprint \in DOMAIN entries THEN None ELSE get_key
       /\ puts_after_get' = IF fingerprint \in DOMAIN entries \/ get_key = None
                            THEN 0
                            ELSE puts_after_get + 1
       /\ shadow' = CachePut(shadow, fingerprint, embedding).cache
    /\ UNCHANGED <<db_vars, hash_order, seen_query, since_reset>>

Put(fingerprint, embedding) == PutAs("put", MaxClock, fingerprint, embedding)

\* cache.peek(fingerprint), made as the call op
PeekAs(op, fingerprint) ==
    /\ LET r == CachePeek(TheCache, fingerprint) IN
       /\ SetCache(r.cache)
       /\ ret' = [op |-> op, key |-> fingerprint, result |-> r.result]
    /\ put_run' = None
    /\ UNCHANGED <<db_vars, hash_order, seen_query, since_reset,
                   clock, last_use, get_key, puts_after_get, shadow>>

Peek(fingerprint) == PeekAs("peek", fingerprint)

\* cache.get_missing(fingerprints), made as the call op
GetMissingAs(op, fingerprints) ==
    /\ ret' = [op |-> op, arg |-> fingerprints,
               result |-> CacheGetMissing(TheCache, fingerprints)]
    /\ put_run' = None
    /\ UNCHANGED <<db_vars, cache_vars, hash_order, seen_query, since_reset,
                   clock, last_use, get_key, puts_after_get, shadow>>

GetMissing(fingerprints) == GetMissingAs("get_missing", fingerprints)

\* cache.get_cached(fingerprints)
GetCached(fingerprints) ==
    /\ ret' = [op |-> "get_cached", arg |-> fingerprints,
               result |-> CacheGetCached(TheCache, fingerprints)]
    /\ put_run' = None
    /\ UNCHANGED <<db_vars, cache_vars, hash_order, seen_query, since_reset,
                   clock, last_use, get_key, puts_after_get, shadow>>

\* What cache.clear() does to the cache and its history
ClearEffect ==
    /\ SetCache(CacheClear(TheCache))
    /\ put_run' = None
    /\ get_key' = None
    /\ puts_after_get' = 0
    /\ shadow' = CacheClear(shadow)
    /\ UNCHANGED <<clock, last_use>>

\* cache.clear(), made as the call op
ClearAs(op) ==
    /\ ClearEffect
    /\ ret' = [op |-> op]
    /\ UNCHANGED <<db_vars, hash_order, seen_query, since_reset>>

Clear == ClearAs("clear")

NextCache ==
    \/ \E k \in Keys : Get(k)
    \/ \E k \in Keys, e \in Embeddings : Put(k, e)
    \/ \E k \in Keys : Peek(k)
    \/ \E fps \in ProbeLists : GetMissing(fps)
    \/ \E fps \in ProbeLists : GetCached(fps)
    \/ Clear

SpecCache == InitCache /\ [][NextCache]_vars

----------------------------------------------------------------------------
(* The calls on WasmUiDb *)

\* WasmUiDb::ingest, the payload parsed into new_records
Ingest(new_records) ==
    /\ SetDb(DbIngest(TheDb, new_records))
    /\ ret' = [op |-> "ingest", arg |-> new_records, prev_size |-> Len(records)]
    /\ put_run' = None
    /\ seen_query' = None
    /\ since_reset' = None
    /\ UNCHANGED <<cache_vars, hash_order,
                   clock, last_use, get_key, puts_after_get, shadow>>

\* WasmUiDb::ingest, the payload failing to parse: Err, nothing touched
IngestError ==
    /\ ret' = [op |-> "ingest", error |-> "Failed to parse records"]
    /\ put_run' = None
    /\ UNCHANGED <<db_vars, cache_vars, hash_order, seen_query, since_reset,
                   clock, last_use, get_key, puts_after_get, shadow>>

\* WasmUiDb::reset
Reset ==
    /\ SetDb(DbReset(TheDb))
    /\ ClearEffect
    /\ ret' = [op |-> "reset"]
    /\ seen_query' = None
    /\ since_reset' = Some([prev_size |-> Len(records),
                             prev_cache |-> CacheSize(TheCache)])
    /\ UNCHANGED hash_order

\* WasmUiDb::size
Size ==
    /\ ret' = [op |-> "size", result |-> DbSize(TheDb)]
    /\ put_run' = None
    /\ UNCHANGED <<db_vars, cache_vars, hash_order, seen_query, since_reset,
                   clock, last_use, get_key, puts_after_get, shadow>>

\* WasmUiDb::get_record
GetRecord(id) ==
    /\ ret' = [op |-> "get_record", id |-> id, result |-> DbGetRecord(TheDb, id)]
    /\ put_run' = None
    /\ UNCHANGED <<db_vars, cache_vars, hash_order, seen_query, since_reset,
                   clock, last_use, get_key, puts_after_get, shadow>>

\* An iteration order that changes once the cache holds an entry.
QueryHashOrderByCache(orders) ==
    IF entries = EmptyMap THEN hash_order
    ELSE CHOOSE o \in orders : o # hash_order

\* The order in which a query's hash set yields the positions: the build's,
\* the same in every call (FxHasher has no per-run state)
QueryHashOrder(orders) == hash_order

\* WasmUiDb::query, returning result.  remember marks this execution as the
\* one later executions of the same query are compared with.
QueryReturns(query_json, result, remember) ==
    /\ ret' = [op |-> "query", arg |-> query_json, result |-> result,
               repeated |-> seen_query # None /\ seen_query[1].arg = query_json]
    /\ seen_query' =
          IF seen_query = None
          THEN IF remember /\ result.ok
               THEN Some([arg |-> query_json, matches |-> result.matches,
                          total |-> result.total,
                          cache_size |-> CacheSize(TheCache), others |-> FALSE])
               ELSE None
          ELSE IF seen_query[1].arg # query_json
          THEN Some([seen_query[1] EXCEPT !.others = TRUE])
          ELSE seen_query
    /\ put_run' = None
    /\ UNCHANGED <<db_vars, cache_vars, hash_order, since_reset,
                   clock, last_use, get_key, puts_after_get, shadow>>

\* WasmUiDb::query; elapsed is what the clock measures
Query(query_json, elapsed, remember) ==
    QueryReturns(query_json,
                 DbQuery(TheDb, QueryHashOrder(QueryHashOrders), elapsed, query_json),
                 remember)

\* WasmUiDb::cache_embedding
CacheEmbedding(fingerprint, embedding) ==
    PutAs("cache_embedding", MaxHostPuts, fingerprint, embedding)

\* A get_embedding that reads through get instead of peek.
GetEmbeddingThroughGet(fingerprint) ==
    /\ LET r == CacheGet(TheCache, fingerprint) IN
       /\ SetCache(r.cache)
       /\ ret' = [op |-> "get_embedding", key |-> fingerprint, result |-> r.result]
    /\ put_run' = None
    /\ UNCHANGED <<db_vars, hash_order, seen_query, since_reset,
                   clock, last_use, get_key, puts_after_get, shadow>>

\* WasmUiDb::get_embedding
GetEmbedding(fingerprint) == PeekAs("get_embedding", fingerprint)

\* WasmUiDb::get_missing_embeddings
GetMissingEmbeddings(fingerprints) ==
    GetMissingAs("get_missing_embeddings", fingerprints)

\* WasmUiDb::cache_size
CacheSizeCall ==
    /\ ret' = [op |-> "cache_size", result |-> CacheSize(TheCache)]
    /\ put_run' = None
    /\ UNCHANGED <<db_vars, cache_vars, hash_order, seen_query, since_reset,
                   clock, last_use, get_key, puts_after_get, shadow>>

\* WasmUiDb::clear_cache
ClearCache == ClearAs("clear_cache")

\* WasmUiDb::semantic_rerank
SemanticRerank(query_embedding, candidate_ids, top_k) ==
    /\ LET r == Rerank(TheDb, TheCache, query_embedding, candidate_ids, top_k) IN
       /\ SetCache(r.cache)
       /\ ret' = [op |-> "semantic_rerank", query |-> query_embedding,
                  ids |-> candidate_ids, top_k |-> top_k, result |-> r.result]
    /\ put_run' = None
    /\ UNCHANGED <<db_vars, hash_order, seen_query, since_reset,
                   clock, last_use, get_key, puts_after_get, shadow>>

----------------------------------------------------------------------------
(* The host interface without query: no hash set is iterated, so one hash  *)
(* order stands for all.                                                   *)

NextDb ==
    \/ \E c \in Corpora : Ingest(c)
    \/ IngestError
    \/ Reset
    \/ Size
    \/ \E id \in Ids : GetRecord(id)
    \/ CacheEmbedding("a", <<1, 0>>)
    \/ GetEmbedding("a")
    \/ GetMissingEmbeddings(<<"a", "b">>)
    \/ CacheSizeCall
    \/ ClearCache

SpecDb == InitWith({IdentityOrder}) /\ [][NextDb]_vars

----------------------------------------------------------------------------
(* The host interface with query *)

NextQuery ==
    \/ \E c \in QueryCorpora : Ingest(c)
    \/ Reset
    \/ \E q \in QueryInputs, elapsed \in Elapsed, remember \in BOOLEAN :
          Query(q, elapsed, remember)
    \/ CacheEmbedding("a", <<1, 0>>)

SpecQuery == InitWith(QueryHashOrders) /\ [][NextQuery]_vars

----------------------------------------------------------------------------
(* The cache beside a database, with semantic_rerank *)

RerankKeys == {"a", "b", "c"}

RerankCorpora == {<<Pool[1], Pool[4]>>, <<Pool[3]>>}

RerankIdLists == {<<1, 3, 1>>, <<7, 0, 1>>}

NextRerank ==
    \/ \E k \in RerankKeys : Get(k)
    \/ \E k \in RerankKeys : Put(k, <<1, 0>>)
    \/ \E k \in RerankKeys : Peek(k)
    \/ GetMissing(<<"a", "b", "c">>)
    \/ GetCached(<<"a", "b", "c">>)
    \/ Clear
    \/ \E c \in RerankCorpora : Ingest(c)
    \/ \E ids \in RerankIdLists, k \in 1..2 : SemanticRerank(<<1, 0>>, ids, k)

SpecRerank == InitCache /\ [][NextRerank]_vars

----------------------------------------------------------------------------
(* The whole host interface *)

Next ==
    \/ \E c \in QueryCorpora : Ingest(c)
    \/ IngestError
    \/ Reset
    \/ Size
    \/ \E id \in Ids : GetRecord(id)
    \/ \E q \in QueryInputs, elapsed \in Elapsed, remember \in BOOLEAN :
          Query(q, elapsed, remember)
    \/ CacheEmbedding("a", <<1, 0>>)
    \/ GetEmbedding("a")
    \/ GetMissingEmbeddings(<<"a", "b">>)
    \/ CacheSizeCall
    \/ ClearCache
    \/ \E ids \in RerankIdLists : SemanticRerank(<<1, 0>>, ids, 1)

Spec == Init /\ [][Next]_vars

----------------------------------------------------------------------------
(* Properties of the EmbeddingCache *)

\* The last call was a put of an absent key into a full cache.
PutOverflowed ==
    /\ ret.op = "put"
    /\ ret.key \notin ret.keys_before
    /\ Cardinality(ret.keys_before) >= capacity

\* C1: the cache never holds more than capacity entries; after n > capacity
\* puts of pairwise distinct keys and no other call, it holds exactly
\* capacity entries, the first n - capacity keys put are absent and the last
\* capacity keys are present; and a put of an absent key into a full cache
\* removes exactly one entry, the one whose most recent get-or-put is oldest.
C1_LruEviction ==
    /\ CacheSize(TheCache) <= capacity
    /\ (put_run # None /\ Distinct(put_run[1]) /\ Len(put_run[1]) > capacity) =>
          LET s == put_run[1]
              n == Len(s)
          IN /\ CacheSize(TheCache) = capacity
             /\ \A i \in 1..(n - capacity) : s[i] \notin DOMAIN entries
             /\ \A i \in (n - capacity + 1)..n : s[i] \in DOMAIN entries
    /\ PutOverflowed =>
          /\ Len(ret.evicted) = 1
          /\ ret.evicted[1] \in ret.keys_before
          /\ \A k \in ret.keys_before \ {ret.evicted[1]} :
                 last_use[ret.evicted[1]] < last_use[k]

\* C1's case: more distinct keys put than the capacity, the last one evicting.
C1_Witness ==
    /\ put_run # None
    /\ Distinct(put_run[1])
    /\ Len(put_run[1]) > capacity + 1
    /\ PutOverflowed
    /\ Len(ret.evicted) = 1

\* C2: after get(k) hits, the next capacity - 1 puts of absent keys leave k in
\* the cache, and every entry they evict was used before k's get; with
\* capacity 2, after put a, put b, get a, put c the missing ones among
\* [a, b, c] are exactly [b].
C2_GetMakesMostRecent ==
    /\ (get_key # None /\ puts_after_get <= capacity - 1) =>
          /\ get_key[1] \in DOMAIN entries
          /\ ret.op = "put" =>
                \A i \in 1..Len(ret.evicted) :
                    /\ ret.evicted[i] # get_key[1]
                    /\ last_use[ret.evicted[i]] < last_use[get_key[1]]
    /\ (/\ capacity = 2
        /\ get_key = Some("a")
        /\ puts_after_get = 1
        /\ ret.op = "put"
        /\ ret.key = "c"
        /\ ret.keys_before = {"a", "b"}) =>
          CacheGetMissing(TheCache, <<"a", "b", "c">>) = <<"b">>

\* C2's case: get a on a full cache of capacity 2 holding a and b, then put c,
\* which evicts b.
C2_Witness ==
    /\ capacity = 2
    /\ get_key = Some("a")
    /\ puts_after_get = 1
    /\ ret.op = "put"
    /\ ret.key = "c"
    /\ ret.keys_before = {"a", "b"}
    /\ ret.evicted = <<"b">>
    /\ last_use["a"] > last_use["b"]
    /\ last_use["b"] > 0

\* C3: peek, get_missing, get_cached and semantic_rerank leave the whole cache
\* (entries with their vectors and access counts, recency order, capacity) as
\* it was: after any sequence of calls the cache equals the one the same calls
\* build with these four left out, and every put evicts the same entries as
\* it does there.
C3_ReadsLeaveCacheUnchanged ==
    /\ TheCache = shadow
    /\ ret.op = "put" => ret.evicted = ret.shadow_evicted

\* C3's case: a put that evicts right after a peek or semantic_rerank that
\* found an embedding.
C3_Witness ==
    /\ ret.op = "put"
    /\ ret.after_read
    /\ capacity = 2
    /\ Len(ret.evicted) = 1
    /\ ret.evicted = ret.shadow_evicted

----------------------------------------------------------------------------
(* Properties of the UiDatabase *)

\* How often p occurs in a list
Occurrences(list, p) == Cardinality({i \in 1..Len(list) : list[i] = p})

Ascending(list) == \A i \in 1..(Len(list) - 1) : list[i] < list[i + 1]

UniqueIds(recs) == \A i, j \in 1..Len(recs) : i # j => recs[i].id # recs[j].id

\* The last call was an ingest whose payload parsed.
Ingested == ret.op = "ingest" /\ "arg" \in DOMAIN ret

\* C4: the records are those of the last ingest (none after a reset); every
\* position of a record occurs exactly once in the role list of the record's
\* role and in no other role list; every position in a role list is below
\* the number of records; every role list is ascending.
C4_RoleIndexPartition ==
    /\ Ingested => records = ret.arg
    /\ \A p \in Positions(Len(records)) :
          /\ records[p + 1].role \in DOMAIN role_index
          /\ Occurrences(role_index[records[p + 1].role], p) = 1
          /\ \A r \in (DOMAIN role_index) \ {records[p + 1].role} :
                 Occurrences(role_index[r], p) = 0
    /\ \A r \in DOMAIN role_index :
          /\ Ascending(role_index[r])
          /\ Range(role_index[r]) \subseteq Positions(Len(records))

\* C4's case: an ingest of two records of one role over a corpus of two.
C4_Witness ==
    /\ Ingested
    /\ ret.prev_size = 2
    /\ Len(records) = 2
    /\ records[1].role = records[2].role
    /\ role_index = K1(records[1].role, <<0, 1>>)

\* C5: p is in token_index[t] exactly when t is among the tokens of the name
\* or of a context string of the record at p; no list holds a position
\* twice; every list is ascending.
C5_TokenIndexExact ==
    LET tokens_of(p) == Range(RecordTokens(records[p + 1]))
        all_tokens == (DOMAIN token_index)
                          \cup UNION {tokens_of(p) : p \in Positions(Len(records))}
    IN \A t \in all_tokens :
          /\ t \in DOMAIN token_index
          /\ Range(token_index[t]) \subseteq Positions(Len(records))
          /\ \A p \in Positions(Len(records)) :
                 (p \in Range(token_index[t])) <=> (t \in tokens_of(p))
          /\ Distinct(token_index[t])
          /\ Ascending(token_index[t])

\* C5's case: the second of two records emits the token login twice and the
\* first emits it once.
C5_Witness ==
    /\ Ingested
    /\ Len(records) = 2
    /\ Occurrences(RecordTokens(records[2]), Chars("login")) = 2
    /\ Chars("login") \in DOMAIN token_index
    /\ token_index[Chars("login")] = <<0, 1>>

\* C6: every ingest leaves the records and the three indices that the same
\* ingest builds on a new database, whatever was ingested before, and leaves
\* the synonym map and the cache (entries, recency order, capacity) as they
\* were.
C6_IngestReplaces ==
    [][(ret'.op = "ingest" /\ "arg" \in DOMAIN ret') =>
          /\ TheDb' = DbIngest(DbNew, ret'.arg)
          /\ synonyms' = synonyms
          /\ TheCache' = TheCache]_vars

\* C6's case: one record without data-testid ingested over a corpus of two,
\* beside a cache that holds an embedding.
C6_Witness ==
    /\ Ingested
    /\ ret.prev_size = 2
    /\ Len(records) = 1
    /\ testid_index = EmptyMap
    /\ CacheSize(TheCache) = 1
    /\ TheDb = DbIngest(DbNew, ret.arg)

----------------------------------------------------------------------------
(* reset *)

\* C7: after reset and until the next ingest, size() is 0, get_record is
\* absent for every id, the three indices are empty, the synonym map is the
\* one built at construction and every query that is answered has total 0 and
\* no matches; right after reset the embedding cache is empty as well.
C7_ResetEmpties ==
    /\ ret.op = "reset" =>
          /\ since_reset # None
          /\ CacheSize(TheCache) = 0
          /\ entries = EmptyMap
          /\ access_order = <<>>
    /\ since_reset # None =>
          /\ DbSize(TheDb) = 0
          /\ \A id \in Ids : DbGetRecord(TheDb, id) = None
          /\ role_index = EmptyMap
          /\ token_index = EmptyMap
          /\ testid_index = EmptyMap
          /\ synonyms = InitSynonyms
          /\ (ret.op = "query" /\ ret.result.ok) =>
                ret.result.total = 0 /\ ret.result.matches = <<>>

\* A query with two clauses answered after a reset that emptied a corpus of
\* two records and a cache of one entry, the cache filled again since
C7_Witness ==
    /\ since_reset # None
    /\ since_reset[1].prev_size = 2
    /\ since_reset[1].prev_cache = 1
    /\ CacheSize(TheCache) = 1
    /\ ret.op = "query"
    /\ ret.result.ok
    /\ Len(ret.result.explain.filters_applied) = 2
    /\ ret.result.total = 0

----------------------------------------------------------------------------
(* query: the where list *)

\* The where list of the query the last call executed
LastWhere == ParseQueryAST(ret.arg)[1].where

\* The last call is a query that was executed with a nonempty where list
FilteredQuery ==
    /\ ret.op = "query"
    /\ ret.result.ok
    /\ Len(LastWhere) > 0

\* The positions that pass every clause, each clause evaluated on its own
PassAll(where) ==
    {p \in Positions(Len(records)) :
        \A i \in 1..Len(where) : p \in ApplyFilter(TheDb, where[i]).result}

\* The where list in the order perm
Permuted(where, perm) == [i \in 1..Len(where) |-> where[perm[i]]]

\* The orders a where list of n clauses can be written in
ClauseOrders(n) == {perm \in [1..n -> 1..n] : Distinct(perm)}

\* total of the last query with where in place of its where list
TotalWith(where) ==
    Execute(TheDb, hash_order, 0,
            [ParseQueryAST(ret.arg)[1] EXCEPT !.where = where]).total

\* C9: for a query with a nonempty where list, total counts exactly the
\* positions that pass every clause evaluated on its own and the matches are
\* among them; total is the same for every order of the clauses, and no
\* further clause appended to the list makes it larger.
C9_StrictAnd ==
    FilteredQuery =>
        /\ ret.result.total = Cardinality(PassAll(LastWhere))
        /\ Range(ret.result.positions) \subseteq PassAll(LastWhere)
        /\ \A perm \in ClauseOrders(Len(LastWhere)) :
              TotalWith(Permuted(LastWhere, perm)) = ret.result.total
        /\ \A i \in 1..Len(MoreClauses) :
              TotalWith(Append(LastWhere, ParseWhereClause(MoreClauses[i])[1]))
                  <= ret.result.total

\* A query of two clauses that pass different positions of a corpus of two
\* records: one record passes both, and a further clause takes it away
C9_Witness ==
    /\ FilteredQuery
    /\ Len(records) = 2
    /\ Len(LastWhere) = 2
    /\ ApplyFilter(TheDb, LastWhere[1]).result # ApplyFilter(TheDb, LastWhere[2]).result
    /\ ret.result.total = 1
    /\ Range(ret.result.positions) = PassAll(LastWhere)
    /\ \E i \in 1..Len(MoreClauses) :
          TotalWith(Append(LastWhere, ParseWhereClause(MoreClauses[i])[1])) = 0

----------------------------------------------------------------------------
(* query: determinism *)

----------------------------------------------------------------------------
(* The host interface on three buttons, for ordering and pagination *)

MaxLimit == 3    \* pages of 1..MaxLimit matches are asked for

\* Three buttons at y = 10, 200, 400.  The first two tie on the score and
\* the last two on x.
OrderPool ==
    << NodeRecord(1, "button", "Ok", 3, NoAttrs, <<>>, Rect(30, 10, 10, 10), "a", "button"),
       NodeRecord(2, "button", "Ok", 3, NoAttrs, <<>>, Rect(20, 200, 10, 10), "b", "button"),
       NodeRecord(3, "button", "Ok", 3, NoAttrs, <<>>, Rect(20, 400, 10, 10), "c", "button") >>

\* The three buttons in every ingestion order
OrderCorpora ==
    {[i \in 1..3 |-> OrderPool[a[i]]] : a \in {s \in [1..3 -> 1..3] : Distinct(s)}}

\* The orders a hash set can yield three positions in
OrderHashOrders == {s \in [1..3 -> Positions(3)] : Distinct(s)}

\* An order entry as the host writes it
OrderEntry(field, direction) ==
    JObj(K2("field", JStr(field), "direction", JStr(direction)))
FieldEntry(field) == JObj(K1("field", JStr(field)))

\* A query for the buttons with the entries as its order_by
OrderedQuery(entries_json) ==
    JObj(K2("where", JArr(<<RoleClause(JStr("button"))>>), "order_by", JArr(entries_json)))

\* A query for the buttons with a limit and an offset
PagedQuery(limit, offset) ==
    JObj(K3("where", JArr(<<RoleClause(JStr("button"))>>),
            "limit", JNum(limit), "offset", JNum(offset)))

\* The y-ascending query as the host sends it
OrderWireQuery ==
    JObj(K2("where", JArr(<<RoleClause(JStr("button"))>>),
            "orderBy", JArr(<<OrderEntry("y", "asc")>>)))

\* The queries made: every shape of order_by, the camelCase key, and pages
OrderQueries ==
    { WhereQuery(<<RoleClause(JStr("button"))>>),
      OrderedQuery(<<>>),
      OrderedQuery(<<JObj(K1("direction", JStr("asc")))>>),
      OrderedQuery(<<FieldEntry("name")>>),
      OrderedQuery(<<FieldEntry("score")>>),
      OrderedQuery(<<OrderEntry("score", "asc")>>),
      OrderedQuery(<<FieldEntry("y")>>),
      OrderedQuery(<<OrderEntry("y", "asc")>>),
      OrderedQuery(<<OrderEntry("x", "desc")>>),
      OrderedQuery(<<OrderEntry("x", "asc")>>),
      OrderWireQuery,
      PagedQuery(1, 1),
      PagedQuery(2, 2),
      PagedQuery(2, 3) }

NextOrder ==
    \/ \E c \in OrderCorpora : Ingest(c)
    \/ Reset
    \/ \E q \in OrderQueries : Query(q, 0, FALSE)

SpecOrder == InitWith(OrderHashOrders) /\ [][NextOrder]_vars

----------------------------------------------------------------------------
(* query: pagination *)

\* The query the last call executed
LastQuery == ParseQueryAST(ret.arg)[1]

\* The last call is a query that was executed
AnsweredQuery == ret.op = "query" /\ ret.result.ok

\* The page of the last query at offset with limit
Page(offset, limit) ==
    Execute(TheDb, hash_order, 0,
            [LastQuery EXCEPT !.offset = Some(offset), !.limit = Some(limit)])

\* The offsets 0, L, 2L, ... below total
PageOffsets(limit, total) == {o \in 0..(total - 1) : o % limit = 0}

RECURSIVE SumOver(_, _)
SumOver(f, set) ==
    IF set = {} THEN 0
    ELSE LET x == CHOOSE x \in set : TRUE IN f[x] + SumOver(f, set \ {x})

\* C11: for every limit L >= 1 the pages at offsets 0, L, 2L, ... below total
\* hold total matches between them, no record position is on two pages,
\* every page reports the total and the candidates_considered of the query,
\* and the page at an offset >= total is empty.
C11_PagesPartition ==
    AnsweredQuery =>
        /\ ret.result.total = ret.result.explain.candidates_considered
        /\ \A limit \in 1..MaxLimit :
              LET total == ret.result.total
                  offsets == PageOffsets(limit, total)
              IN /\ SumOver([o \in offsets |-> Len(Page(o, limit).matches)], offsets)
                       = total
                 /\ \A o1, o2 \in offsets :
                       o1 # o2 => Range(Page(o1, limit).positions)
                                    \cap Range(Page(o2, limit).positions) = {}
                 /\ \A o \in offsets :
                       /\ Page(o, limit).total = total
                       /\ Page(o, limit).explain.candidates_considered = total
                 /\ \A o \in total..(total + limit) :
                       /\ Page(o, limit).matches = <<>>
                       /\ Page(o, limit).total = total

\* The second page of two of a query with three candidates: one match, on
\* none of the positions of the first page
C11_Witness ==
    /\ AnsweredQuery
    /\ LastQuery.limit = Some(2)
    /\ LastQuery.offset = Some(2)
    /\ ret.result.total = 3
    /\ Len(ret.result.matches) = 1
    /\ Len(Page(0, 2).matches) = 2
    /\ ret.result.positions[1] \notin Range(Page(0, 2).positions)

----------------------------------------------------------------------------
(* query: ordering *)

\* The candidates of the last query in the order execute leaves them in,
\* before pagination
OrderedPositions == Page(0, Len(records) + 1).positions

\* The key a query is to be ordered by: field and whether descending.  No
\* order spec, an empty list, an entry without a field and an entry with a
\* field other than score, y, x all mean score descending.
StatedKey(query) ==
    IF query.order_by = None THEN [field |-> "score", desc |-> TRUE]
    ELSE IF query.order_by[1] = <<>> THEN [field |-> "score", desc |-> TRUE]
    ELSE IF query.order_by[1][1].field = None THEN [field |-> "score", desc |-> TRUE]
    ELSE IF query.order_by[1][1].field[1] \notin {"score", "y", "x"}
    THEN [field |-> "score", desc |-> TRUE]
    ELSE [field |-> query.order_by[1][1].field[1],
          desc |-> query.order_by[1][1].direction # Some("asc")]

\* The value of the field of the record at position p, as a fraction
KeyValue(field, p) ==
    CASE field = "score" -> ScoreCandidate(TheDb, p, LastQuery)
      [] field = "y" -> Frac(records[p + 1].rect.y, 1)
      [] field = "x" -> Frac(records[p + 1].rect.x, 1)

\* The record at p has to come before the one at q
MustPrecede(key, p, q) ==
    IF key.desc THEN FracLess(KeyValue(key.field, q), KeyValue(key.field, p))
    ELSE FracLess(KeyValue(key.field, p), KeyValue(key.field, q))

\* The list of positions is ordered by the key
OrderedBy(key, list) ==
    \A i, j \in 1..Len(list) : i < j => ~MustPrecede(key, list[j], list[i])

\* C12: the candidates of every answered query are ordered, before
\* pagination, by the key its order spec stands for: score descending
\* without an order spec, with an empty list, with an entry that has no field
\* or an unknown one; else the field, descending unless direction is asc.
C12_OrderedByStatedKey ==
    AnsweredQuery => OrderedBy(StatedKey(LastQuery), OrderedPositions)

\* C12, the order specs that name one of score, y, x, and no order spec at
\* all: the candidates are ordered by the stated key.
C12_NamedFieldsOrdered ==
    (/\ AnsweredQuery
     /\ LastQuery.order_by # None =>
           /\ LastQuery.order_by[1] # <<>>
           /\ LastQuery.order_by[1][1].field # None)
        => OrderedBy(StatedKey(LastQuery), OrderedPositions)

\* C13: two candidates that tie on the ordering key come in the order of
\* their record positions, the lower position first.
C13_TiesInRecordOrder ==
    AnsweredQuery =>
        \A i, j \in 1..Len(OrderedPositions) :
            (/\ i < j
             /\ KeyValue(StatedKey(LastQuery).field, OrderedPositions[i])
                   = KeyValue(StatedKey(LastQuery).field, OrderedPositions[j]))
                => OrderedPositions[i] < OrderedPositions[j]

\* C13, with the candidate set yielding the positions in ascending order
C13_TiesInRecordOrderIfSetAscending ==
    (AnsweredQuery /\ hash_order = <<0, 1, 2>> /\ LastQuery.order_by = None) =>
        \A i, j \in 1..Len(OrderedPositions) :
            (/\ i < j
             /\ KeyValue("score", OrderedPositions[i])
                   = KeyValue("score", OrderedPositions[j]))
                => OrderedPositions[i] < OrderedPositions[j]

----------------------------------------------------------------------------
(* The host interface on the seed corpora *)

\* The two-record seed corpus: a button named Submit and a link named Home
SeedCorpus ==
    << NodeRecord(1, "button", "Submit", 3, NoAttrs, <<>>, Rect(0, 0, 50, 20), "a", "button"),
       NodeRecord(2, "link", "Home", 3, NoAttrs, <<>>, Rect(0, 400, 40, 20), "b", "a") >>

\* The records A, B, C of the near scenario
NearPool ==
    << NodeRecord(1, "button", "A", 3, NoAttrs, <<>>, Rect(100, 100, 10, 10), "a", "button"),
       NodeRecord(2, "button", "B", 3, NoAttrs, <<>>, Rect(110, 110, 10, 10), "b", "button"),
       NodeRecord(3, "button", "C", 3, NoAttrs, <<>>, Rect(500, 500, 10, 10), "c", "button") >>

\* The corpora ingested: the seed corpus in both orders, A, B, C in every order
SeedCorpora ==
    {SeedCorpus, <<SeedCorpus[2], SeedCorpus[1]>>}
    \cup {[i \in 1..3 |-> NearPool[a[i]]] : a \in {s \in [1..3 -> 1..3] : Distinct(s)}}

\* A near clause whose target is written under the key id_key
NearClauseKeyed(id_key, id, radius) ==
    JObj(K1("near", JObj(K2(id_key, JNum(id), "radius", JNum(radius)))))

\* The seed query with the one-character typo
FuzzyTypoQuery == WhereQuery(<<NameClause("fuzzy", "submt")>>)

\* The near query as the host sends it
NearWireQuery == WhereQuery(<<NearClauseKeyed("targetId", 1, 50)>>)

\* A query with a state clause constraining visible and enabled, and a role
\* clause after it
StateBothQuery ==
    WhereQuery(<<JObj(K1("state", JObj(K2("visible", JBool(TRUE), "enabled", JBool(TRUE))))),
                 RoleClause(JStr("button"))>>)

\* A near clause with a text and no target_id
NearTextClause(text, radius) ==
    JObj(K1("near", JObj(K2("text", JStr(text), "radius", JNum(radius)))))

\* A near clause with a target_id and a text
NearBothClause(id, text, radius) ==
    JObj(K1("near", JObj(K3("target_id", JNum(id), "text", JStr(text),
                            "radius", JNum(radius)))))

\* Near queries with a text: alone or with a target_id, the id carried by a
\* record or by none, the text contained in a name (in another letter case)
\* or in none; and a near query with neither
NearTextQueries ==
    { WhereQuery(<<NearTextClause("HOME", 50)>>),
      WhereQuery(<<NearTextClause("b", 50)>>),
      WhereQuery(<<NearTextClause("zzz", 50)>>),
      WhereQuery(<<NearBothClause(9, "home", 50)>>),
      WhereQuery(<<NearBothClause(9, "B", 50)>>),
      WhereQuery(<<NearBothClause(9, "zzz", 50)>>),
      WhereQuery(<<NearBothClause(3, "b", 50)>>),
      WhereQuery(<<JObj(K1("near", JObj(K1("radius", JNum(50)))))>>) }

\* The queries made on the seed corpora
SeedQueries ==
    { WhereQuery(<<RoleClause(JStr("button"))>>),
      FuzzyTypoQuery,
      WhereQuery(<<NameClause("fuzzy", "submit")>>),
      WhereQuery(<<NameClause("fuzzy", "submit now")>>),
      NearWireQuery,
      WhereQuery(<<NearClauseKeyed("target_id", 1, 50)>>),
      WhereQuery(<<NearClauseKeyed("target_id", 1, 14)>>),
      WhereQuery(<<NearClauseKeyed("target_id", 3, 50)>>),
      WhereQuery(<<NearClauseKeyed("target_id", 9, 50)>>),
      StateBothQuery }
    \cup NearTextQueries

NextSeed ==
    \/ \E c \in SeedCorpora : Ingest(c)
    \/ Reset
    \/ \E q \in SeedQueries : Query(q, 0, FALSE)

SpecSeed == InitWith(OrderHashOrders) /\ [][NextSeed]_vars

----------------------------------------------------------------------------
(* query: the fuzzy name clause *)

\* C14: on the seed corpus the fuzzy name clause with the value "submt"
\* passes the record named Submit: the match of id 1 is returned, with a
\* score of at least 0.5.
C14_TypoMatches ==
    (AnsweredQuery /\ ret.arg = FuzzyTypoQuery /\ Range(records) = Range(SeedCorpus)) =>
        \E i \in 1..Len(ret.result.matches) :
            /\ ret.result.matches[i].id = 1
            /\ ~FracLess(ret.result.matches[i].score, Frac(1, 2))

----------------------------------------------------------------------------
(* query: the near clause *)

\* The ids of the matches of the last query
MatchIds == {ret.result.matches[i].id : i \in 1..Len(ret.result.matches)}

\* The ids of the records whose center is within radius of the center of the
\* record with the id target; radius and distance are compared squared, on
\* the doubled coordinates
IdsNear(target, radius) ==
    {r.id : r \in {r \in Range(records) :
        \E t \in Range(records) :
            /\ t.id = target
            /\ (2 * r.rect.x + r.rect.width - 2 * t.rect.x - t.rect.width)
                  * (2 * r.rect.x + r.rect.width - 2 * t.rect.x - t.rect.width)
               + (2 * r.rect.y + r.rect.height - 2 * t.rect.y - t.rect.height)
                  * (2 * r.rect.y + r.rect.height - 2 * t.rect.y - t.rect.height)
               <= 4 * radius * radius}}

\* C15: the near query as sent on the wire, targetId = 1 and radius 50,
\* returns exactly the records within 50 of the center of record 1, which on
\* A, B, C are A and B.
C15_NearOnWire ==
    (AnsweredQuery /\ ret.arg = NearWireQuery) =>
        /\ MatchIds = IdsNear(1, 50)
        /\ Range(records) = Range(NearPool) => MatchIds = {1, 2}

\* C15, the target written under the key target_id: the matches are exactly
\* the records within the radius of the target's center.
C15_NearWithSnakeCaseKey ==
    \A id \in {1, 3, 9}, radius \in {14, 50} :
        (AnsweredQuery /\ ret.arg = WhereQuery(<<NearClauseKeyed("target_id", id, radius)>>)) =>
            MatchIds = IdsNear(id, radius)

\* The last call is an answered query whose only clause is a near clause
AnsweredNear ==
    /\ AnsweredQuery
    /\ Len(LastQuery.where) = 1
    /\ LastQuery.where[1].kind = "Near"

\* The near filter of the last query
LastNear == LastQuery.where[1].near

\* The positions of the records carrying the near filter's target_id
CarryingId ==
    {i \in 1..Len(records) :
        LastNear.target_id # None /\ records[i].id = LastNear.target_id[1]}

\* The positions of the records whose lowercased name contains the near
\* filter's lowercased text
NamedByText ==
    {i \in 1..Len(records) :
        /\ LastNear.text # None
        /\ StrContains(ToLowercase(Chars(records[i].name)),
                       ToLowercase(Chars(LastNear.text[1])))}

\* The ids of the records whose center is within the near filter's radius of
\* the center of the first record among the positions
IdsNearFirst(positions) ==
    IdsNear(records[CHOOSE i \in positions : \A j \in positions : i <= j].id,
            LastNear.radius)

\* C21: the near filter produces the empty set if and only if neither
\* target_id nor text yields a target record; when no record carries the
\* given target_id and some record's lowercased name contains the lowercased
\* text, the first such record in record order is the target.
C21_NearTargetByIdOrText ==
    AnsweredNear =>
        /\ MatchIds = {} <=> (CarryingId = {} /\ NamedByText = {})
        /\ (CarryingId = {} /\ NamedByText # {}) => MatchIds = IdsNearFirst(NamedByText)

\* C21, as the code has it: a target_id that is given decides alone, and the
\* text is looked at only when no target_id is given.
C21_TextOnlyWithoutTargetId ==
    AnsweredNear =>
        /\ LastNear.target_id # None =>
              MatchIds = IF CarryingId = {} THEN {} ELSE IdsNearFirst(CarryingId)
        /\ LastNear.target_id = None =>
              MatchIds = IF NamedByText = {} THEN {} ELSE IdsNearFirst(NamedByText)

\* A target_id no record carries together with a text that names a record:
\* no match
C21_NoFallback ==
    /\ AnsweredNear
    /\ LastNear.target_id # None
    /\ CarryingId = {}
    /\ NamedByText # {}
    /\ MatchIds = {}

\* The rect.y of the matches of the last query never decreases
MatchesByYAscending ==
    \A i, j \in 1..Len(ret.result.matches) :
        i < j => ret.result.matches[i].rect.y <= ret.result.matches[j].rect.y

\* C16: the query sent on the wire with "orderBy":[{"field":"y",
\* "direction":"asc"}] returns its matches in non-decreasing rect.y, for
\* every ingestion order of the three buttons.
C16_WireOrderByY ==
    (AnsweredQuery /\ ret.arg = OrderWireQuery) => MatchesByYAscending

\* C16, the order written under the key order_by: the matches come in
\* non-decreasing rect.y.
C16_SnakeCaseOrderByY ==
    (AnsweredQuery /\ ret.arg = OrderedQuery(<<OrderEntry("y", "asc")>>))
        => MatchesByYAscending

----------------------------------------------------------------------------
(* The host interface on buttons named by the synonym words *)

\* The number of words of the longest synonym group
MaxGroup ==
    CHOOSE n \in {Len(SynonymGroups[g]) : g \in 1..Len(SynonymGroups)} :
        \A g \in 1..Len(SynonymGroups) : Len(SynonymGroups[g]) <= n

\* One button per word of the group, named by the word
GroupCorpus(group) ==
    [i \in 1..Len(group) |->
        NodeRecord(i, "button", group[i], 3, NoAttrs, <<>>, Rect(0, 0, 10, 10), "a", "button")]

\* The button named Anmelden of the seed scenario, beside a link
AnmeldenCorpus ==
    << NodeRecord(4, "link", "Login", 3, NoAttrs, <<>>, Rect(0, 0, 10, 10), "a", "a"),
       NodeRecord(5, "button", "Anmelden", 3, NoAttrs, <<>>, Rect(0, 0, 10, 10), "b", "button") >>

SynonymCorpora ==
    {GroupCorpus(SynonymGroups[g]) : g \in 1..Len(SynonymGroups)} \cup {AnmeldenCorpus}

\* The seed query for a word: the buttons whose name contains it
SynonymQuery(word) ==
    WhereQuery(<<RoleClause(JStr("button")), NameClause("contains", word)>>)

\* The buttons whose name contains the word, letter case aside
ButtonsNamed(word) ==
    {r.id : r \in {r \in Range(records) :
        r.role = "button" /\ StrContains(ToLowercase(Chars(r.name)), Chars(word))}}

\* The words asked for: those of the groups a record is named after, and two
\* words asked for on every corpus
WordsAsked ==
    {"login", "ok"}
    \cup UNION {Range(SynonymGroups[g]) :
                   g \in {g \in 1..Len(SynonymGroups) :
                             \E w \in Range(SynonymGroups[g]) : ButtonsNamed(w) # {}}}

NextSynonyms ==
    \/ \E c \in SynonymCorpora : Ingest(c)
    \/ Reset
    \/ \E w \in WordsAsked : Query(SynonymQuery(w), 0, FALSE)

SpecSynonyms ==
    InitWith({[i \in 1..MaxGroup |-> i - 1]}) /\ [][NextSynonyms]_vars

\* C17: for any two words w1, w2 of one synonym group, the name clause
\* contains:w1 passes every record whose name contains w2; and the synonym
\* map is the one built at construction in every state.
C17_SynonymsSymmetric ==
    /\ synonyms = InitSynonyms
    /\ \A g \in 1..Len(SynonymGroups) :
          \A w1, w2 \in Range(SynonymGroups[g]) :
              (AnsweredQuery /\ ret.arg = SynonymQuery(w1))
                  => ButtonsNamed(w2) \subseteq MatchIds

\* The query for login answered with the button named Anmelden alone, after
\* a reset and a second ingest
C17_Witness ==
    /\ AnsweredQuery
    /\ ret.arg = SynonymQuery("login")
    /\ records = AnmeldenCorpus
    /\ ButtonsNamed("anmelden") = {5}
    /\ [i \in 1..Len(ret.result.matches) |-> ret.result.matches[i].id] = <<5>>
    /\ ret.result.total = 1

----------------------------------------------------------------------------
(* semantic_rerank *)

\* The places of the list ids whose id is that of a record of the corpus
\* whose fingerprint is a key of the cache
Rankable(ids) ==
    {i \in 1..Len(ids) :
        \E p \in 1..Len(records) :
            /\ records[p].id = ids[i]
            /\ \A q \in 1..(p - 1) : records[q].id # ids[i]
            /\ records[p].fingerprint \in DOMAIN entries}

\* C18: semantic_rerank(q, ids, k) returns min(k, m) entries, m the number
\* of entries of ids with a record in the corpus and a cached vector for its
\* fingerprint, and every returned id is the id of such an entry.
C18_RerankCount ==
    ret.op = "semantic_rerank" =>
        /\ Len(ret.result) = Min(ret.top_k, Cardinality(Rankable(ret.ids)))
        /\ \A i \in 1..Len(ret.result) :
              \E j \in Rankable(ret.ids) : ret.ids[j] = ret.result[i].id

\* A rerank of three ids, one with no record and one with no cached vector:
\* one entry comes back
C18_Witness ==
    /\ ret.op = "semantic_rerank"
    /\ ret.ids = <<7, 0, 1>>
    /\ Len(records) = 2
    /\ records[1].fingerprint \in DOMAIN entries
    /\ records[2].fingerprint \notin DOMAIN entries
    /\ ret.top_k = 2
    /\ Len(ret.result) = 1
    /\ ret.result[1].id = 1

\* A rerank with more rankable ids than k: the list is cut at k
C18_WitnessCut ==
    /\ ret.op = "semantic_rerank"
    /\ Cardinality(Rankable(ret.ids)) = 3
    /\ ret.top_k = 2
    /\ Len(ret.result) = 2

----------------------------------------------------------------------------
(* query: filters_applied *)

\* The description the clause appends when the corpus is corpus
AppliedOn(corpus, clause) == ApplyFilter(DbIngest(DbNew, corpus), clause).applied

\* C19: filters_applied has one entry per clause, in clause order, and the
\* entry of a clause is the string the clause appends on every other corpus
\* too, the empty one included.
C19_DescriptionOfClauseAlone ==
    AnsweredQuery =>
        /\ Len(ret.result.explain.filters_applied) = Len(LastQuery.where)
        /\ \A i \in 1..Len(LastQuery.where) :
              \A corpus \in SeedCorpora \cup {<<>>} :
                  ret.result.explain.filters_applied[i]
                      = AppliedOn(corpus, LastQuery.where[i])

\* C19, without the state clauses: one entry per clause, in clause order,
\* and the entry of a clause that is no state clause is the same on every
\* corpus.
C19_StableButForState ==
    AnsweredQuery =>
        /\ Len(ret.result.explain.filters_applied) = Len(LastQuery.where)
        /\ \A i \in 1..Len(LastQuery.where) :
              LastQuery.where[i].kind # "State" =>
                  \A corpus \in SeedCorpora \cup {<<>>} :
                      ret.result.explain.filters_applied[i]
                          = AppliedOn(corpus, LastQuery.where[i])

----------------------------------------------------------------------------
(* fuzzy_score on pairs of short texts *)

\* The queries scored: one-character words only, one word, several words,
\* padded, empty, with a two-byte letter
FuzzyQueries ==
    {"a b", "a", "x y", "o k", "ö", "a-b c", "ab", "submt", "sign in",
     " Ok ", "", "b ab"}

\* The targets scored
FuzzyTargets ==
    {"Submit", "Home", "a", "ab", "a b c", "b a", "Sign In Now", "xyz", "o",
     "Ok", "", "bab"}

\* A call of fuzzy_score
FuzzyScoreCall(query, target) ==
    /\ ret' = [op |-> "fuzzy_score", query |-> query, target |-> target,
               result |-> FuzzyScore(Chars(query), Chars(target))]
    /\ UNCHANGED <<db_vars, cache_vars, hash_order, hist_vars, put_run,
                   seen_query, since_reset>>

NextFuzzy == \E query \in FuzzyQueries, target \in FuzzyTargets : FuzzyScoreCall(query, target)

SpecFuzzy == InitWith({IdentityOrder}) /\ [][NextFuzzy]_vars

\* The last call is fuzzy_score on a target that, normalized, neither equals
\* nor contains the normalized query
ScoredApart ==
    /\ "op" \in DOMAIN ret
    /\ ret.op = "fuzzy_score"
    /\ Normalize(Chars(ret.target)) # Normalize(Chars(ret.query))
    /\ ~StrContains(Normalize(Chars(ret.target)), Normalize(Chars(ret.query)))

\* The share of the query's tokens found in the target's, 0 for a query
\* without tokens
TokenShare(q, t) ==
    IF Tokenize(q) = <<>> THEN Frac(0, 1) ELSE TokenScore(Tokenize(q), Tokenize(t))

\* 1 - distance / max length of the query and the target cut to the query's
\* length + 10
LevShare(q, t) ==
    LET t_truncated == SubSeq(t, 1, Min(Len(t), StrByteLen(q) + 10))
    IN LevScore(Levenshtein(q, t_truncated), Max(StrByteLen(q), StrByteLen(t_truncated)))

\* max(token_score * 0.7, lev_score * 0.5) of the normalized texts
WeightedMax(query, target) ==
    FracMax(FracMul(TokenShare(Normalize(query), Normalize(target)), Frac(7, 10)),
            FracMul(LevShare(Normalize(query), Normalize(target)), Frac(5, 10)))

\* C20: when the normalized target neither equals nor contains the normalized
\* query, fuzzy_score returns max(token_score * 0.7, lev_score * 0.5), where
\* token_score is 0 for a query without tokens, so that such a query scores
\* lev_score * 0.5.
C20_FuzzyScoreIsWeightedMax ==
    ScoredApart => ret.result = WeightedMax(Chars(ret.query), Chars(ret.target))

\* C20, as the code has it: the weighted maximum for a query with a token,
\* and 0 for a query without one.
C20_ZeroWithoutTokens ==
    ScoredApart =>
        ret.result = IF Tokenize(Normalize(Chars(ret.query))) = <<>>
                     THEN Frac(0, 1)
                     ELSE WeightedMax(Chars(ret.query), Chars(ret.target))

\* A query of one-character words gets 0 although its lev_score is positive
C20_ScoredZero ==
    /\ ScoredApart
    /\ Tokenize(Normalize(Chars(ret.query))) = <<>>
    /\ ret.result = Frac(0, 1)
    /\ FracLess(Frac(0, 1), WeightedMax(Chars(ret.query), Chars(ret.target)))

----------------------------------------------------------------------------
(* EmbeddingCache: the recency sequence and the entry map *)

\* C22: in every reachable state of the cache the recency sequence holds
\* each key of the entry map exactly once and nothing else.
C22_RecencyIsPermutationOfKeys ==
    /\ Range(access_order) = DOMAIN entries
    /\ Len(access_order) = Cardinality(DOMAIN entries)
    /\ \A k \in DOMAIN entries : Occurrences(access_order, k) = 1

\* C22's case: a put on a key already present in a cache of two entries,
\* after which the key is the newest of the recency sequence.
C22_Witness ==
    /\ ret.op = "put"
    /\ ret.key \in ret.keys_before
    /\ Cardinality(ret.keys_before) = 2
    /\ Len(access_order) = 2
    /\ access_order[2] = ret.key
    /\ clock >= 3

\* C22's other case: a get that hit in a cache of two entries, after which
\* the key is the newest of the recency sequence.
C22_WitnessGet ==
    /\ ret.op = "get"
    /\ ret.result # None
    /\ Len(access_order) = 2
    /\ access_order[2] = ret.key

\* What put(fingerprint, ..) would do in the present state: it terminates,
\* and its eviction loop removes one entry, a key that was present, when the
\* key is absent and the cache is full, and none otherwise
PutWouldEvictOne(fingerprint) ==
    LET r == CachePut(TheCache, fingerprint, <<1, 0>>)
        full == fingerprint \notin DOMAIN entries /\ CacheSize(TheCache) >= capacity
    IN /\ r.terminates
       /\ Len(r.evicted) = IF full THEN 1 ELSE 0
       /\ Range(r.evicted) \subseteq DOMAIN entries
       /\ DOMAIN r.cache.entries = ((DOMAIN entries) \ Range(r.evicted)) \cup {fingerprint}

\* C23: with a capacity of at least 1, in every reachable state of the cache
\* a put of any key terminates, and its eviction loop removes exactly one
\* entry when the key is absent and the cache is full, and none otherwise;
\* so did the put that was made last.
C23_PutTerminatesEvictingOne ==
    capacity >= 1 =>
        /\ \A k \in Keys : PutWouldEvictOne(k)
        /\ ret.op = "put" =>
              /\ Len(ret.evicted) = IF PutOverflowed THEN 1 ELSE 0
              /\ Range(ret.evicted) \subseteq ret.keys_before
              /\ DOMAIN entries = (ret.keys_before \ Range(ret.evicted)) \cup {ret.key}

\* C23's case: with capacity 1, the third or a later get/put call, made after
\* some call other than put, is a put of an absent key into the full cache;
\* it removed the one entry there was.
C23_Witness ==
    /\ capacity = 1
    /\ PutOverflowed
    /\ Len(ret.evicted) = 1
    /\ DOMAIN entries = {ret.key}
    /\ put_run = None
    /\ clock >= 3

----------------------------------------------------------------------------
(* The host's cache calls on a cache that fills up.  WasmUiDb::new builds   *)
(* the cache with capacity 10000; put looks at the capacity only to compare *)
(* it with the number of entries, and here the capacity is one of          *)
(* 1..MaxCap, so that a few cache_embedding calls fill the cache.           *)

NextHostCache ==
    \/ \E k \in RerankKeys, e \in Embeddings : PutAs("cache_embedding", MaxClock, k, e)
    \/ \E k \in Keys : GetEmbedding(k)
    \/ \E fps \in ProbeLists : GetMissingEmbeddings(fps)
    \/ CacheSizeCall
    \/ ClearCache
    \/ Reset

SpecHostCache == InitCache /\ [][NextHostCache]_vars

\* The last call was a cache_embedding of a key not cached into a full cache.
HostPutOverflowed ==
    /\ ret.op = "cache_embedding"
    /\ ret.key \notin ret.keys_before
    /\ Cardinality(ret.keys_before) >= capacity

\* The entry a cache_embedding of a new key into a full cache evicted is the
\* one whose last cache_embedding call is the oldest, and it is the entry
\* evicted when the calls other than cache_embedding, clear_cache and reset
\* are left out
EvictedOldestCached ==
    HostPutOverflowed =>
        /\ Len(ret.evicted) = 1
        /\ ret.evicted[1] \in ret.keys_before
        /\ \A k \in ret.keys_before \ {ret.evicted[1]} :
               last_use[ret.evicted[1]] < last_use[k]
        /\ ret.evicted = ret.shadow_evicted

\* A step of get_embedding leaves the cache (entries with their vectors and
\* access counts, recency order, capacity) as it was; a step of any call
\* other than cache_embedding leaves it as it was or, as clear_cache and
\* reset do, empties it
OnlyCacheEmbeddingReorders ==
    /\ ret'.op = "get_embedding" => TheCache' = TheCache
    /\ ret'.op # "cache_embedding" =>
          (TheCache' = TheCache \/ (ret'.op \in {"clear_cache", "reset"}
                                       /\ TheCache' = CacheClear(TheCache)))

\* C24: at the host interface get_embedding never changes the cache; the
\* recency order and the access counts of the cached entries are changed by
\* cache_embedding only; the entry evicted by a cache_embedding of a new key
\* into a full cache is the one whose last cache_embedding call is oldest,
\* whatever get_embedding calls were made in between.
C24_GetEmbeddingLeavesRecency ==
    /\ []EvictedOldestCached
    /\ [][OnlyCacheEmbeddingReorders]_vars

\* C24's case: a cache of capacity 2 holding a and b, a cached before b; a
\* get_embedding that found its embedding; then a cache_embedding of c, which
\* evicted a.
C24_Witness ==
    /\ capacity = 2
    /\ HostPutOverflowed
    /\ ret.after_read
    /\ ret.key = "c"
    /\ ret.keys_before = {"a", "b"}
    /\ last_use["a"] < last_use["b"]
    /\ ret.evicted = <<"a">>
    /\ DOMAIN entries = {"b", "c"}

====
